---- MODULE Spec2Model ----
(***************************************************************************)
(* A model of the nostal photo editor core: the crop-box geometry engine   *)
(* (useCropState / useCropLogic / useCropInteraction / ImageCropper), the  *)
(* live render pipeline (Engine + useAppStore) and the tiled exporter      *)
(* (TiledExporter).                                                        *)
(*                                                                         *)
(* Numbers.  The program computes in IEEE doubles.  The model computes in  *)
(* fixed point: a length is an integer number of 1/PX CSS pixels, a scale  *)
(* an integer number of 1/SC, and every division rounds to the nearest     *)
(* unit (RDiv).  The continuous rotation takes the angles whose cosine and *)
(* sine are rational (Pythagorean triples over TrigDen), so a rotation is  *)
(* computed, not assumed.  Coverage is judged with a slack (CoverSlack)    *)
(* far above the rounding of the model and far below the violations found. *)
(***************************************************************************)
EXTENDS Integers, Sequences, FiniteSets, TLC

\* ------------------------------------------------------------------------
\* Arithmetic
\* ------------------------------------------------------------------------

\* Length units per CSS pixel (resolution of the fixed-point lengths).
PX == 10
\* Scale units per 1.0 of scale.
SC == 100 * PX
\* The pan relative to the box centre, in image pixels, is held in units of
\* 1/(PX * RP) px.
RP == 10

Abs(a) == IF a < 0 THEN -a ELSE a
Max2(a, b) == IF a >= b THEN a ELSE b
Min2(a, b) == IF a <= b THEN a ELSE b
\* a / b rounded to the nearest integer (b > 0), halves upward.
RDiv(a, b) == (2 * a + b) \div (2 * b)
\* Math.floor(a / b), Math.ceil(a / b) for b > 0.
FloorDiv(a, b) == a \div b
CeilDiv(a, b) == -((-a) \div b)

\* Denominator of the rational cosines and sines.
TrigDen == 5 * 5
\* smoothRotation is held in hundredths of a degree; the slider
\* (min -45, max 45, step 0.01) can take each of these values.
Angles == {-3687, 0, 3687}
CosOf(deg) == IF deg = 0 THEN 25 ELSE 20
SinOf(deg) == IF deg = 0 THEN 0 ELSE IF deg > 0 THEN 15 ELSE -15
\* Math.cos(-rad), Math.sin(-rad) as the code takes them.
CosNeg(deg) == CosOf(deg)
SinNeg(deg) == -SinOf(deg)
\* (x*cos - y*sin, x*sin + y*cos) with cos/sin numerators c, s over TrigDen.
RotX(x, y, c, s) == RDiv(x * c - y * s, TrigDen)
RotY(x, y, c, s) == RDiv(x * s + y * c, TrigDen)

\* ------------------------------------------------------------------------
\* Crop geometry (pure functions of a CropperUIState record)
\* ------------------------------------------------------------------------

TARGET_VIEWPORT_SIZE == 550
MIN_BOX == 50

\* aspectRatioVal is null or a ratio; the ratio is held as <<num, den>>.
NoAspect == <<0, 0>>
\* The selectable ratios of the aspect drop-down, as [long side, short side].
AspectChoices == {<<3, 2>>, <<1, 1>>}
Dirs == {"t", "b", "l", "r", "tl", "tr", "bl", "br"}
NoDir == "none"
HasL(dir) == dir \in {"l", "tl", "bl"}
HasR(dir) == dir \in {"r", "tr", "br"}
HasT(dir) == dir \in {"t", "tl", "tr"}
HasB(dir) == dir \in {"b", "bl", "br"}

\* getBoxCorners: tl, tr, br, bl.
getBoxCorners(s) ==
  LET x1 == s.boxOffsetX - RDiv(s.boxWidth, 2)
      y1 == s.boxOffsetY - RDiv(s.boxHeight, 2)
      x2 == x1 + s.boxWidth
      y2 == y1 + s.boxHeight
  IN << [x |-> x1, y |-> y1], [x |-> x2, y |-> y1],
        [x |-> x2, y |-> y2], [x |-> x1, y |-> y2] >>

\* (currentImgWidth * scale) / 2 and (currentImgHeight * scale) / 2, as lengths.
LimitW(s) == RDiv(s.currentImgWidth * s.scale, (2 * SC) \div PX)
LimitH(s) == RDiv(s.currentImgHeight * s.scale, (2 * SC) \div PX)

\* getConstraintsParams: the four half planes a*x + b*y <= d
\* (a, b numerators over TrigDen).
getConstraintsParams(s) ==
  LET C == CosNeg(s.smoothRotation)
      S == SinNeg(s.smoothRotation)
  IN << [a |-> C,  b |-> -S, d |-> LimitW(s) + s.panX],
        [a |-> -C, b |-> S,  d |-> LimitW(s) - s.panX],
        [a |-> S,  b |-> C,  d |-> LimitH(s) + s.panY],
        [a |-> -S, b |-> -C, d |-> LimitH(s) - s.panY] >>

\* One pass of constrainPoint's inner loop over constraints k..4.
RECURSIVE ConstrainSweep(_, _, _)
ConstrainSweep(cons, k, acc) ==
  IF k > Len(cons) THEN acc
  ELSE LET c == cons[k]
           val == RDiv(c.a * acc.x + c.b * acc.y, TrigDen)
       IN IF val > c.d
          THEN LET diff == val - c.d
               IN ConstrainSweep(cons, k + 1,
                    [x |-> acc.x - RDiv(c.a * diff, TrigDen),
                     y |-> acc.y - RDiv(c.b * diff, TrigDen),
                     satisfied |-> FALSE])
          ELSE ConstrainSweep(cons, k + 1, acc)

CONSTRAIN_ITERATIONS == 10
\* constrainPoint's outer loop: at most 10 sweeps, stopping after a sweep
\* that found every constraint satisfied.
RECURSIVE ConstrainLoop(_, _, _, _)
ConstrainLoop(cons, i, cx, cy) ==
  IF i >= CONSTRAIN_ITERATIONS THEN [x |-> cx, y |-> cy]
  ELSE LET r == ConstrainSweep(cons, 1, [x |-> cx, y |-> cy, satisfied |-> TRUE])
       IN IF r.satisfied THEN [x |-> r.x, y |-> r.y]
          ELSE ConstrainLoop(cons, i + 1, r.x, r.y)

constrainPoint(x, y, s) == ConstrainLoop(getConstraintsParams(s), 0, x, y)

\* The validity test of calculateResize: no corner is moved by more than
\* 0.1 px by constrainPoint.
CornerOk(p, s) ==
  LET c == constrainPoint(p.x, p.y, s)
  IN ~(10 * Abs(c.x - p.x) > PX \/ 10 * Abs(c.y - p.y) > PX)

RectValid(L, R, T, B, s) ==
  /\ CornerOk([x |-> L, y |-> T], s)
  /\ CornerOk([x |-> R, y |-> T], s)
  /\ CornerOk([x |-> R, y |-> B], s)
  /\ CornerOk([x |-> L, y |-> B], s)

\* calculateResize, first part: the start box's edges, the dragged edges
\* moved by (dx, dy), crossed edges swapped.
ResizeEdges(dx, dy, dir, startW, startH, startOffX, startOffY) ==
  LET L0 == startOffX - RDiv(startW, 2)
      R0 == L0 + startW
      T0 == startOffY - RDiv(startH, 2)
      B0 == T0 + startH
      L1 == IF HasL(dir) THEN L0 + dx ELSE L0
      R1 == IF HasR(dir) THEN R0 + dx ELSE R0
      T1 == IF HasT(dir) THEN T0 + dy ELSE T0
      B1 == IF HasB(dir) THEN B0 + dy ELSE B0
  IN [L |-> IF L1 > R1 THEN R1 ELSE L1, R |-> IF L1 > R1 THEN L1 ELSE R1,
      T |-> IF T1 > B1 THEN B1 ELSE T1, B |-> IF T1 > B1 THEN T1 ELSE B1]

\* calculateResize, aspect lock (ratio = num/den = width/height).
AspectLock(e, dir, ratio) ==
  LET num == ratio[1]
      den == ratio[2]
  IN IF dir \in {"l", "r"}
     THEN LET targetH == RDiv((e.R - e.L) * den, num)
              hDiff == targetH - (e.B - e.T)
              newT == e.T - RDiv(hDiff, 2)
          IN [e EXCEPT !.T = newT, !.B = newT + targetH]
     ELSE IF dir \in {"t", "b"}
     THEN LET targetW == RDiv((e.B - e.T) * num, den)
              wDiff == targetW - (e.R - e.L)
              newL == e.L - RDiv(wDiff, 2)
          IN [e EXCEPT !.L = newL, !.R = newL + targetW]
     ELSE LET currentW == e.R - e.L
              currentH == e.B - e.T
          IN IF currentW * den > num * currentH
             THEN LET targetH == RDiv(currentW * den, num)
                  IN IF HasT(dir) THEN [e EXCEPT !.T = e.B - targetH]
                     ELSE [e EXCEPT !.B = e.T + targetH]
             ELSE LET targetW == RDiv(currentH * num, den)
                  IN IF HasL(dir) THEN [e EXCEPT !.L = e.R - targetW]
                     ELSE [e EXCEPT !.R = e.L + targetW]

\* Anchor of the containment search: the opposite corner for a corner
\* handle, the candidate's centre for an edge handle.
ResizeAnchor(e, dir) ==
  IF dir = "tl" THEN [x |-> e.R, y |-> e.B]
  ELSE IF dir = "br" THEN [x |-> e.L, y |-> e.T]
  ELSE IF dir = "tr" THEN [x |-> e.L, y |-> e.B]
  ELSE IF dir = "bl" THEN [x |-> e.R, y |-> e.T]
  ELSE [x |-> RDiv(e.L + e.R, 2), y |-> RDiv(e.T + e.B, 2)]

BISECT_ITERATIONS == 10
\* The search factor is held in units of 1/BisectDen = 2^-10, which is
\* exact for ten halvings of [0, 1].
BisectDen == 2 * 2 * 2 * 2 * 2 * 2 * 2 * 2 * 2 * 2

\* anchor + (edge - anchor) * f
ScaleRect(e, an, f) ==
  [L |-> an.x + RDiv((e.L - an.x) * f, BisectDen),
   R |-> an.x + RDiv((e.R - an.x) * f, BisectDen),
   T |-> an.y + RDiv((e.T - an.y) * f, BisectDen),
   B |-> an.y + RDiv((e.B - an.y) * f, BisectDen)]

\* The binary search of calculateResize; returns bestScale.
RECURSIVE Bisect(_, _, _, _, _, _, _)
Bisect(e, an, s, i, low, high, bestScale) ==
  IF i >= BISECT_ITERATIONS THEN bestScale
  ELSE LET mid == (low + high) \div 2
           t == ScaleRect(e, an, mid)
       IN IF RectValid(t.L, t.R, t.T, t.B, s)
          THEN Bisect(e, an, s, i + 1, mid, high, mid)
          ELSE Bisect(e, an, s, i + 1, low, mid, bestScale)

\* calculateResize, containment: a candidate that leaves the image is
\* pulled towards the anchor by the largest factor found valid.
Contain(e, dir, s) ==
  IF RectValid(e.L, e.R, e.T, e.B, s) THEN e
  ELSE LET an == ResizeAnchor(e, dir)
       IN ScaleRect(e, an, Bisect(e, an, s, 0, 0, BisectDen, 0))

\* calculateResize, last part: the 50 px floor on width and height.
ResizeFloor(e) ==
  LET R1 == IF e.R - e.L < MIN_BOX * PX THEN e.L + MIN_BOX * PX ELSE e.R
      B1 == IF e.B - e.T < MIN_BOX * PX THEN e.T + MIN_BOX * PX ELSE e.B
  IN [e EXCEPT !.R = R1, !.B = B1]

calculateResize(dx, dy, dir, startW, startH, startOffX, startOffY, keepRatio, s) ==
  LET e0 == ResizeEdges(dx, dy, dir, startW, startH, startOffX, startOffY)
      e1 == IF keepRatio /\ s.aspectRatioVal # NoAspect
            THEN AspectLock(e0, dir, s.aspectRatioVal) ELSE e0
      e2 == Contain(e1, dir, s)
      e3 == ResizeFloor(e2)
  IN [w |-> e3.R - e3.L, h |-> e3.B - e3.T,
      x |-> RDiv(e3.L + e3.R, 2), y |-> RDiv(e3.T + e3.B, 2)]

SetMax(S) == CHOOSE m \in S : \A n \in S : n <= m
SetMin(S) == CHOOSE m \in S : \A n \in S : m <= n

\* The box corners rotated by -smoothRotation (image-local axes).
RotatedCorners(s) ==
  LET cs == getBoxCorners(s)
      c == CosNeg(s.smoothRotation)
      sn == SinNeg(s.smoothRotation)
  IN [k \in 1..4 |-> [rx |-> RotX(cs[k].x, cs[k].y, c, sn),
                      ry |-> RotY(cs[k].x, cs[k].y, c, sn)]]

\* A clampPan that clamps into an inverted interval as well.
clampPan_NoMidpoint(s) ==
  LET rc == RotatedCorners(s)
      minPanX == SetMax({rc[k].rx : k \in 1..4}) - LimitW(s)
      maxPanX == SetMin({rc[k].rx : k \in 1..4}) + LimitW(s)
      minPanY == SetMax({rc[k].ry : k \in 1..4}) - LimitH(s)
      maxPanY == SetMin({rc[k].ry : k \in 1..4}) + LimitH(s)
  IN [panX |-> Max2(minPanX, Min2(maxPanX, s.panX)),
      panY |-> Max2(minPanY, Min2(maxPanY, s.panY))]

\* clampPan: the pan interval that keeps every rotated corner inside the
\* image; an empty interval yields its midpoint.
clampPan(s) ==
  LET rc == RotatedCorners(s)
      minRx == SetMin({rc[k].rx : k \in 1..4})
      maxRx == SetMax({rc[k].rx : k \in 1..4})
      minRy == SetMin({rc[k].ry : k \in 1..4})
      maxRy == SetMax({rc[k].ry : k \in 1..4})
      minPanX == maxRx - LimitW(s)
      maxPanX == minRx + LimitW(s)
      minPanY == maxRy - LimitH(s)
      maxPanY == minRy + LimitH(s)
  IN [panX |-> IF minPanX > maxPanX THEN RDiv(minPanX + maxPanX, 2)
               ELSE Max2(minPanX, Min2(maxPanX, s.panX)),
      panY |-> IF minPanY > maxPanY THEN RDiv(minPanY + maxPanY, 2)
               ELSE Max2(minPanY, Min2(maxPanY, s.panY))]

\* getRequiredScale: the least scale at which the image, at its current
\* pan, reaches every rotated corner.
getRequiredScale(s) ==
  LET rc == RotatedCorners(s)
  IN SetMax({0} \cup
       {RDiv(2 * Abs(rc[k].rx - s.panX) * SC, s.currentImgWidth * PX) : k \in 1..4} \cup
       {RDiv(2 * Abs(rc[k].ry - s.panY) * SC, s.currentImgHeight * PX) : k \in 1..4})

\* getMinScaleForBox: the least scale at which a boxW x boxH box centred on
\* the origin is covered by the image whose centre sits at relPan * scale.
\* relPan is in image pixels (units of 1/(PX * RP)).  An axis whose
\* denominator is not positive contributes 0.
getMinScaleForBox(boxW, boxH, relPanX, relPanY, s) ==
  LET x1 == -RDiv(boxW, 2)
      y1 == -RDiv(boxH, 2)
      cs == << [x |-> x1, y |-> y1], [x |-> x1 + boxW, y |-> y1],
               [x |-> x1 + boxW, y |-> y1 + boxH], [x |-> x1, y |-> y1 + boxH] >>
      c == CosNeg(s.smoothRotation)
      sn == SinNeg(s.smoothRotation)
      halfImgW2 == s.currentImgWidth * PX * RP
      halfImgH2 == s.currentImgHeight * PX * RP
      ReqX(p) == LET rx == RotX(p.x, p.y, c, sn)
                     denom2 == halfImgW2 + 2 * (IF rx >= 0 THEN relPanX ELSE -relPanX)
                 IN IF denom2 > 0 THEN RDiv(2 * Abs(rx) * RP * SC, denom2) ELSE 0
      ReqY(p) == LET ry == RotY(p.x, p.y, c, sn)
                     denom2 == halfImgH2 + 2 * (IF ry >= 0 THEN relPanY ELSE -relPanY)
                 IN IF denom2 > 0 THEN RDiv(2 * Abs(ry) * RP * SC, denom2) ELSE 0
  IN SetMax({0} \cup {ReqX(cs[k]) : k \in 1..4} \cup {ReqY(cs[k]) : k \in 1..4})

\* animateReset, the target it computes from the state it is given:
\* the box refit to the 550 px viewport, the pan relative to the box centre
\* in image pixels, and the scale that keeps the same content, raised to
\* the minimum covering scale.
ResetTarget(s) ==
  LET size == TARGET_VIEWPORT_SIZE * PX
      locked == s.aspectRatioVal # NoAspect
      num == IF locked THEN s.aspectRatioVal[1] ELSE s.boxWidth
      den == IF locked THEN s.aspectRatioVal[2] ELSE s.boxHeight
      wide == num > den
      targetBoxW == IF wide THEN size ELSE RDiv(size * num, den)
      targetBoxH == IF wide THEN RDiv(size * den, num) ELSE size
      c == CosNeg(s.smoothRotation)
      sn == SinNeg(s.smoothRotation)
      boxLocalX == RotX(s.boxOffsetX, s.boxOffsetY, c, sn)
      boxLocalY == RotY(s.boxOffsetX, s.boxOffsetY, c, sn)
      relPanX == RDiv((s.panX - boxLocalX) * SC * RP, s.scale)
      relPanY == RDiv((s.panY - boxLocalY) * SC * RP, s.scale)
      minRequiredScale == getMinScaleForBox(targetBoxW, targetBoxH, relPanX, relPanY, s)
      baseTargetScale == RDiv(s.scale * targetBoxW, s.boxWidth)
  IN [w |-> targetBoxW, h |-> targetBoxH, relPanX |-> relPanX, relPanY |-> relPanY,
      s |-> Max2(baseTargetScale, minRequiredScale)]

\* The end values of the animation: the target pan is relPan * targetScale.
ResetEnd(s) ==
  LET t == ResetTarget(s)
  IN [w |-> t.w, h |-> t.h, offX |-> 0, offY |-> 0, s |-> t.s,
      px |-> RDiv(t.relPanX * t.s, SC * RP),
      py |-> RDiv(t.relPanY * t.s, SC * RP)]

ResetStart(s) ==
  [w |-> s.boxWidth, h |-> s.boxHeight, offX |-> s.boxOffsetX, offY |-> s.boxOffsetY,
   s |-> s.scale, px |-> s.panX, py |-> s.panY]

\* updateScaleAndPanForRotation: the fields it writes, given the state
\* with the new smoothRotation.
updateScaleAndPanForRotation(s) ==
  LET prevScale == s.scale
      reqScale == getRequiredScale(s)
      newScale == Max2(reqScale, s.baseScale)
  IN IF newScale # prevScale /\ prevScale > 0
     THEN [s EXCEPT !.scale = newScale,
                    !.panX = RDiv(s.panX * newScale, prevScale),
                    !.panY = RDiv(s.panY * newScale, prevScale)]
     ELSE [s EXCEPT !.scale = Max2(s.scale, reqScale)]

\* ------------------------------------------------------------------------
\* Crop editor: state and handlers
\* ------------------------------------------------------------------------

VARIABLES
  state,   \* the CropperUIState held by useCropState
  anim,    \* the running animateReset loop: its captured start and end
  ops      \* number of user events delivered so far

cropVars == <<state, anim, ops>>

\* Natural sizes <<width, height>> of the images the editor is opened on.
Images == {<<1100, 550>>, <<600, 800>>}
\* Pointer coordinates (px) of the events delivered to the handlers.
PtrXs == {-300, 0, 200}
PtrYs == {-600, 0, 100}
\* The handles that are grabbed.
HandleDirs == {"b", "r", "tr", "tl"}
\* Bound on the number of user events of one run.
MaxOps == 4
\* Bound on the scale (in units of 1.0) a run may zoom to.
MaxScale == 8

NoAnim == [active |-> FALSE, p |-> 0, start |-> ResetStart([boxWidth |-> 0,
             boxHeight |-> 0, boxOffsetX |-> 0, boxOffsetY |-> 0, scale |-> 0,
             panX |-> 0, panY |-> 0]),
           end |-> ResetStart([boxWidth |-> 0, boxHeight |-> 0, boxOffsetX |-> 0,
             boxOffsetY |-> 0, scale |-> 0, panX |-> 0, panY |-> 0])]

\* useCropState: the state set when the image has loaded and no crop was
\* saved before.
InitialCropState(img) ==
  LET natW == img[1]
      natH == img[2]
      size == TARGET_VIEWPORT_SIZE * PX
      boxW == IF natW > natH THEN size ELSE RDiv(size * natW, natH)
      boxH == IF natW > natH THEN RDiv(size * natH, natW) ELSE size
      initialScale == RDiv(boxW * SC, natW * PX)
  IN [naturalWidth |-> natW, naturalHeight |-> natH,
      currentImgWidth |-> natW, currentImgHeight |-> natH,
      scale |-> initialScale, baseScale |-> initialScale,
      smoothRotation |-> 0, baseRotationIndex |-> 0,
      flipX |-> 1, flipY |-> 1, panX |-> 0, panY |-> 0,
      boxWidth |-> boxW, boxHeight |-> boxH,
      boxOffsetX |-> 0, boxOffsetY |-> 0,
      aspectRatioVal |-> NoAspect,
      isDraggingImage |-> FALSE, lastMouseX |-> 0, lastMouseY |-> 0,
      isResizingBox |-> FALSE, resizeDir |-> NoDir,
      resizeStartBoxWidth |-> 0, resizeStartBoxHeight |-> 0,
      resizeStartBoxOffsetX |-> 0, resizeStartBoxOffsetY |-> 0,
      isAnimating |-> FALSE]

\* animateReset(currentState, updateState) called when the rendered state
\* is cur: nothing if currentState.isAnimating, else isAnimating is set
\* and a loop is started on the start and end computed from currentState.
animateResetState(currentState, cur) ==
  IF currentState.isAnimating THEN cur ELSE [cur EXCEPT !.isAnimating = TRUE]
animateResetAnim(currentState, a) ==
  IF currentState.isAnimating THEN a
  ELSE [active |-> TRUE, p |-> 0,
        start |-> ResetStart(currentState), end |-> ResetEnd(currentState)]

\* The bound of a run on the scale: a reset is taken only if its target
\* scale is within MaxScale, a rotation only if its scale is.
ResetBounded(currentState) ==
  currentState.isAnimating \/ ResetTarget(currentState).s <= MaxScale * SC
ScaleBounded(s) == s.scale <= MaxScale * SC

\* A pointer-down that takes no account of a running animation.
handleMouseDown_WhileAnimating(s, cx, cy) ==
  [s EXCEPT !.isDraggingImage = TRUE, !.lastMouseX = cx, !.lastMouseY = cy]

\* handleMouseDown (pointer-down on the workspace, not on a handle):
\* nothing while state.isAnimating.
handleMouseDown(s, cx, cy) ==
  IF s.isAnimating THEN s
  ELSE [s EXCEPT !.isDraggingImage = TRUE, !.lastMouseX = cx, !.lastMouseY = cy]

MouseDown ==
  \E cx \in {0}, cy \in {0} :
    /\ ops < MaxOps
    /\ ~state.isAnimating
    /\ state' = handleMouseDown(state, cx * PX, cy * PX)
    /\ ops' = ops + 1
    /\ UNCHANGED anim

\* handleHandleMouseDown (pointer-down on the handle dir): nothing while
\* state.isAnimating.
handleHandleMouseDown(s, dir, cx, cy) ==
  IF s.isAnimating THEN s
  ELSE [s EXCEPT !.isResizingBox = TRUE, !.resizeDir = dir,
                 !.resizeStartBoxWidth = s.boxWidth,
                 !.resizeStartBoxHeight = s.boxHeight,
                 !.resizeStartBoxOffsetX = s.boxOffsetX,
                 !.resizeStartBoxOffsetY = s.boxOffsetY,
                 !.lastMouseX = cx, !.lastMouseY = cy]

HandleMouseDown ==
  \E dir \in HandleDirs, cx \in {0}, cy \in {0} :
    /\ ops < MaxOps
    /\ ~state.isAnimating
    /\ state' = handleHandleMouseDown(state, dir, cx * PX, cy * PX)
    /\ ops' = ops + 1
    /\ UNCHANGED anim

\* handleMouseMove: nothing while st.isAnimating; else the drag branch,
\* then the resize branch, both computed from the state st the event found.
MoveDrag(st, cx, cy) ==
  LET dx == cx - st.lastMouseX
      dy == cy - st.lastMouseY
      c == CosNeg(st.smoothRotation)
      sn == SinNeg(st.smoothRotation)
      newPanX == st.panX + RotX(dx, dy, c, sn)
      newPanY == st.panY + RotY(dx, dy, c, sn)
      clamped == clampPan([st EXCEPT !.panX = newPanX, !.panY = newPanY])
  IN [panX |-> clamped.panX, panY |-> clamped.panY]

MoveResize(st, cx, cy) ==
  calculateResize(cx - st.lastMouseX, cy - st.lastMouseY, st.resizeDir,
                  st.resizeStartBoxWidth, st.resizeStartBoxHeight,
                  st.resizeStartBoxOffsetX, st.resizeStartBoxOffsetY,
                  st.aspectRatioVal # NoAspect, st)

handleMouseMove(st, cx, cy) ==
  IF st.isAnimating THEN st
  ELSE
  LET s1 == IF st.isDraggingImage
            THEN LET d == MoveDrag(st, cx, cy)
                 IN [st EXCEPT !.panX = d.panX, !.panY = d.panY,
                               !.lastMouseX = cx, !.lastMouseY = cy]
            ELSE st
  IN IF st.isResizingBox /\ st.resizeDir # NoDir
     THEN LET res == MoveResize(st, cx, cy)
          IN [s1 EXCEPT !.boxWidth = res.w, !.boxHeight = res.h,
                        !.boxOffsetX = res.x, !.boxOffsetY = res.y]
     ELSE s1

MouseMove ==
  \E cx \in PtrXs, cy \in PtrYs :
    /\ ops < MaxOps
    /\ ~state.isAnimating
    /\ state.isDraggingImage \/ state.isResizingBox
    /\ state' = handleMouseMove(state, cx * PX, cy * PX)
    /\ ops' = ops + 1
    /\ UNCHANGED anim

\* A pointer-up that clears the flags and starts nothing.
handleMouseUp_FlagsOnly(st) ==
  [st EXCEPT !.isDraggingImage = FALSE, !.isResizingBox = FALSE]

\* handleMouseUp: a resize ends in animateReset on the state the event
\* found; otherwise only the drag flag is cleared.
handleMouseUp(st) ==
  IF st.isResizingBox
  THEN animateResetState(st, [st EXCEPT !.isDraggingImage = FALSE,
                                        !.isResizingBox = FALSE])
  ELSE [st EXCEPT !.isDraggingImage = FALSE]

MouseUp ==
  /\ ops < MaxOps
  /\ state.isDraggingImage \/ state.isResizingBox
  /\ state.isResizingBox => ResetBounded(state)
  /\ state' = handleMouseUp(state)
  /\ anim' = IF state.isResizingBox THEN animateResetAnim(state, anim) ELSE anim
  /\ ops' = ops + 1

\* The animation loop.  A frame at elapsed fraction p writes
\* start + (end - start) * ease with ease = 1 - (1 - p)^3; the model takes
\* one intermediate frame at p = 1/2 (ease = 7/8) and the closing frame.
EaseNum == 7
EaseDen == 8
Lerp(a, b) == a + RDiv((b - a) * EaseNum, EaseDen)

FrameState(s, a) ==
  [s EXCEPT !.boxWidth = Lerp(a.start.w, a.end.w),
            !.boxHeight = Lerp(a.start.h, a.end.h),
            !.boxOffsetX = Lerp(a.start.offX, a.end.offX),
            !.boxOffsetY = Lerp(a.start.offY, a.end.offY),
            !.scale = Lerp(a.start.s, a.end.s),
            !.panX = Lerp(a.start.px, a.end.px),
            !.panY = Lerp(a.start.py, a.end.py)]

\* The closing frame (p = 1): the end values, the offsets zeroed,
\* baseScale set to the end scale, isAnimating cleared.
FinishState(s, a) ==
  [s EXCEPT !.boxWidth = a.end.w, !.boxHeight = a.end.h,
            !.boxOffsetX = 0, !.boxOffsetY = 0,
            !.scale = a.end.s, !.panX = a.end.px, !.panY = a.end.py,
            !.baseScale = a.end.s, !.isAnimating = FALSE]

AnimFrame ==
  /\ anim.active
  /\ anim.p = 0
  /\ state' = FrameState(state, anim)
  /\ anim' = [anim EXCEPT !.p = 1]
  /\ UNCHANGED ops

AnimFinish ==
  /\ anim.active
  /\ state' = FinishState(state, anim)
  /\ anim' = NoAnim
  /\ UNCHANGED ops

\* handleRotationChange: the slider value is written, then scale and pan
\* are adjusted by updateScaleAndPanForRotation.
handleRotationChange(s, value) ==
  LET s1 == [s EXCEPT !.smoothRotation = value]
      u == updateScaleAndPanForRotation(s1)
  IN [s1 EXCEPT !.scale = u.scale, !.panX = u.panX, !.panY = u.panY]

RotationChange ==
  \E value \in Angles :
    /\ ops < MaxOps
    /\ value # state.smoothRotation
    /\ state' = handleRotationChange(state, value)
    /\ ScaleBounded(state')
    /\ ops' = ops + 1
    /\ UNCHANGED anim

\* The slider's onMouseDown: baseScale takes the current scale.
SliderMouseDown ==
  /\ ops < MaxOps
  /\ state.baseScale # state.scale
  /\ state' = [state EXCEPT !.baseScale = state.scale]
  /\ ops' = ops + 1
  /\ UNCHANGED anim

InvertAspect(r) == IF r = NoAspect THEN NoAspect ELSE <<r[2], r[1]>>

\* handleRotateBase: the state it writes before calling animateReset.
handleRotateBase(s, direction) ==
  LET i == s.baseRotationIndex + direction
      newIndex == IF i < 0 THEN 3 ELSE IF i > 3 THEN 0 ELSE i
  IN [s EXCEPT !.baseRotationIndex = newIndex,
               !.currentImgWidth = s.currentImgHeight,
               !.currentImgHeight = s.currentImgWidth,
               !.boxWidth = s.boxHeight,
               !.boxHeight = s.boxWidth,
               !.boxOffsetX = IF direction = 1 THEN -s.boxOffsetY ELSE s.boxOffsetY,
               !.boxOffsetY = IF direction = 1 THEN s.boxOffsetX ELSE -s.boxOffsetX,
               !.panX = IF direction = 1 THEN -s.panY ELSE s.panY,
               !.panY = IF direction = 1 THEN s.panX ELSE -s.panX,
               !.aspectRatioVal = InvertAspect(s.aspectRatioVal)]

RotateBase ==
  \E direction \in {1, -1} :
    /\ ops < MaxOps
    /\ LET newState == handleRotateBase(state, direction)
       IN /\ ResetBounded(newState)
          /\ state' = animateResetState(newState, newState)
          /\ anim' = animateResetAnim(newState, anim)
    /\ ops' = ops + 1

\* A flip that mirrors the image and leaves pan and box where they are.
handleFlipBase_SignOnly(s, axis) ==
  IF axis = "h" THEN [s EXCEPT !.flipX = -s.flipX] ELSE [s EXCEPT !.flipY = -s.flipY]

\* handleFlipBase: the sign, the pan and the box offset of the axis are
\* multiplied by -1.
handleFlipBase(s, axis) ==
  IF axis = "h"
  THEN [s EXCEPT !.flipX = -s.flipX, !.panX = -s.panX, !.boxOffsetX = -s.boxOffsetX]
  ELSE [s EXCEPT !.flipY = -s.flipY, !.panY = -s.panY, !.boxOffsetY = -s.boxOffsetY]

FlipBase ==
  \E axis \in {"h", "v"} :
    /\ ops < MaxOps
    /\ state' = handleFlipBase(state, axis)
    /\ ops' = ops + 1
    /\ UNCHANGED anim

\* toggleOrientation.
toggleOrientation(s) ==
  [s EXCEPT !.boxWidth = s.boxHeight, !.boxHeight = s.boxWidth,
            !.aspectRatioVal = InvertAspect(s.aspectRatioVal)]

ToggleOrientation ==
  /\ ops < MaxOps
  /\ LET newState == toggleOrientation(state)
     IN /\ ResetBounded(newState)
        /\ state' = animateResetState(newState, newState)
        /\ anim' = animateResetAnim(newState, anim)
  /\ ops' = ops + 1

\* handleAspectChange: 'free' clears the ratio; a ratio a:b is taken as
\* long/short for a landscape box and short/long for a portrait box, and
\* animateReset is called.
AspectFor(s, choice) ==
  IF s.boxWidth >= s.boxHeight THEN choice ELSE <<choice[2], choice[1]>>

AspectChange ==
  \/ /\ ops < MaxOps
     /\ state.aspectRatioVal # NoAspect
     /\ state' = [state EXCEPT !.aspectRatioVal = NoAspect]
     /\ ops' = ops + 1
     /\ UNCHANGED anim
  \/ \E choice \in AspectChoices :
       /\ ops < MaxOps
       /\ LET newState == [state EXCEPT !.aspectRatioVal = AspectFor(state, choice)]
          IN /\ ResetBounded(newState)
             /\ state' = animateResetState(newState, newState)
             /\ anim' = animateResetAnim(newState, anim)
       /\ ops' = ops + 1

CropInit ==
  /\ \E img \in Images : state = InitialCropState(img)
  /\ anim = NoAnim
  /\ ops = 0

CropNext ==
  \/ MouseDown
  \/ HandleMouseDown
  \/ MouseMove
  \/ MouseUp
  \/ AnimFrame
  \/ AnimFinish
  \/ RotationChange
  \/ SliderMouseDown
  \/ RotateBase
  \/ FlipBase
  \/ ToggleOrientation
  \/ AspectChange

\* A state at rest: no drag, no resize, no animation.
AtRest == ~state.isDraggingImage /\ ~state.isResizingBox /\ ~state.isAnimating

\* Slack (px) allowed to the coverage test for the rounding of the model.
CoverSlack == 2

\* Every corner of the crop box, rotated into image-local axes and taken
\* relative to the pan, lies inside the scaled image.
Covered(s) ==
  LET rc == RotatedCorners(s)
  IN \A k \in 1..4 :
       /\ Abs(rc[k].rx - s.panX) <= LimitW(s) + CoverSlack * PX
       /\ Abs(rc[k].ry - s.panY) <= LimitH(s) + CoverSlack * PX

\* C1: whenever the editor is at rest, every corner of the crop box lies
\* inside the scaled image: |x| <= (currentImgWidth / 2) * scale and
\* |y| <= (currentImgHeight / 2) * scale in image-local axes relative to
\* the pan.
C1_CoveredAtRest == AtRest => Covered(state)

\* One quarter turn from a state at rest, its reset run to its end:
\* handleRotateBase(direction), animateReset, the closing frame.
QuarterTurn(s, direction) ==
  LET newState == handleRotateBase(s, direction)
  IN FinishState(animateResetState(newState, newState),
                 animateResetAnim(newState, NoAnim))

\* The quarter turns 1..n can be taken within the scale bound of a run.
RECURSIVE TurnsBounded(_, _)
TurnsBounded(s, n) ==
  IF n = 0 THEN TRUE
  ELSE /\ ResetBounded(handleRotateBase(s, 1))
       /\ TurnsBounded(QuarterTurn(s, 1), n - 1)

RECURSIVE Turns(_, _)
Turns(s, n) == IF n = 0 THEN s ELSE Turns(QuarterTurn(s, 1), n - 1)

\* Tolerances of the round trip: lengths within RoundTripTol px, the scale
\* within RoundTripTol hundredths.
RoundTripTol == 2
SameCrop(a, b) ==
  /\ a.baseRotationIndex = b.baseRotationIndex
  /\ a.flipX = b.flipX /\ a.flipY = b.flipY
  /\ a.currentImgWidth = b.currentImgWidth
  /\ a.currentImgHeight = b.currentImgHeight
  /\ a.aspectRatioVal = b.aspectRatioVal
  /\ Abs(a.boxWidth - b.boxWidth) <= RoundTripTol * PX
  /\ Abs(a.boxHeight - b.boxHeight) <= RoundTripTol * PX
  /\ Abs(a.boxOffsetX - b.boxOffsetX) <= RoundTripTol * PX
  /\ Abs(a.boxOffsetY - b.boxOffsetY) <= RoundTripTol * PX
  /\ Abs(a.panX - b.panX) <= RoundTripTol * PX
  /\ Abs(a.panY - b.panY) <= RoundTripTol * PX
  /\ 100 * Abs(a.scale - b.scale) <= RoundTripTol * SC

\* C9: from a state at rest, four rotateBase(+1), each with its reset run
\* to its end, bring back the quadrant index, the box, the pan, the flips,
\* the image orientation and the locked ratio.
C9_FourQuarterTurns ==
  (AtRest /\ TurnsBounded(state, 4)) => SameCrop(Turns(state, 4), state)

\* C10: isDraggingImage and isResizingBox are never both true.
C10_OneGesture == ~(state.isDraggingImage /\ state.isResizingBox)

\* The pan interval of one axis as the rule states it: from the largest
\* rotated corner coordinate minus the scaled half extent to the smallest
\* plus the scaled half extent.
PanRange(coords, half) == [min |-> SetMax(coords) - half, max |-> SetMin(coords) + half]
PanRangeX(s) == PanRange({RotatedCorners(s)[k].rx : k \in 1..4}, LimitW(s))
PanRangeY(s) == PanRange({RotatedCorners(s)[k].ry : k \in 1..4}, LimitH(s))
\* The rule on one axis: the pan clamped into a proper range, the midpoint
\* of an inverted one.
AxisRule(range, pan, out) ==
  IF range.min > range.max THEN out = RDiv(range.min + range.max, 2)
  ELSE /\ range.min <= out /\ out <= range.max
       /\ (range.min <= pan /\ pan <= range.max) => out = pan
       /\ pan < range.min => out = range.min
       /\ pan > range.max => out = range.max
\* Pans <<panX, panY>> handed to clampPan, in px.
PanProbes == {<<-2000, 2000>>, <<40, -30>>, <<2000, -2000>>}
WithPan(s, px, py) == [s EXCEPT !.panX = px, !.panY = py]
\* The rule, the independence and the idempotence for the results r of
\* clampPan on s, rx on s with another panY, ry on s with another panX.
ClampCase(s, rangeX, rangeY, r, rx, ry) ==
  /\ AxisRule(rangeX, s.panX, r.panX)
  /\ AxisRule(rangeY, s.panY, r.panY)
  /\ r.panX = rx.panX
  /\ r.panY = ry.panY
  /\ clampPan(WithPan(s, r.panX, r.panY)) = r

\* C19: clampPan clamps the pan of each axis into the range of that axis
\* and returns the midpoint of an inverted range; the result on one axis
\* is the same for every pan of the other axis; clamping a clamped state
\* changes nothing.
C19_ClampPanPerAxis ==
  \A p \in PanProbes :
    ClampCase(WithPan(state, p[1] * PX, p[2] * PX), PanRangeX(state), PanRangeY(state),
              clampPan(WithPan(state, p[1] * PX, p[2] * PX)),
              clampPan(WithPan(state, p[1] * PX, state.panY)),
              clampPan(WithPan(state, state.panX, p[2] * PX)))

\* A pan drag has been clamped at a bound of a proper range on one axis,
\* in a state whose other axis has an inverted range.
C19_Witness ==
  /\ state.isDraggingImage
  /\ \/ /\ PanRangeX(state).min > PanRangeX(state).max
        /\ PanRangeY(state).min < PanRangeY(state).max
        /\ state.panY \in {PanRangeY(state).min, PanRangeY(state).max}
     \/ /\ PanRangeY(state).min > PanRangeY(state).max
        /\ PanRangeX(state).min < PanRangeX(state).max
        /\ state.panX \in {PanRangeX(state).min, PanRangeX(state).max}

\* A pointer move of a resize gesture alone, begun on a box that the
\* image covers.
ResizeMove_FromCovered ==
  /\ MouseMove
  /\ state.isResizingBox /\ ~state.isDraggingImage
  /\ Covered(state)

\* C20: the box that a resize move returns, after the containment search
\* and the 50 px floor, has its four corners inside the four half planes
\* of the image.
C20_ResizeStaysInside ==
  [][ResizeMove_FromCovered => Covered(state')]_cropVars

\* width / height = ratio, to within 1 px on either dimension.
RatioOf(w, h, ratio) == Abs(w * ratio[2] - h * ratio[1]) <= (ratio[1] + ratio[2]) * PX
HasRatio(s, ratio) == RatioOf(s.boxWidth, s.boxHeight, ratio)

\* A step of handleMouseMove in a resize gesture alone: a user event
\* that writes the four box fields and nothing else.
ResizeStep ==
  /\ state.isResizingBox /\ ~state.isDraggingImage /\ ~state.isAnimating
  /\ state.resizeDir # NoDir
  /\ ops' = ops + 1 /\ anim' = anim
  /\ state' = [state EXCEPT !.boxWidth = state'.boxWidth,
                            !.boxHeight = state'.boxHeight,
                            !.boxOffsetX = state'.boxOffsetX,
                            !.boxOffsetY = state'.boxOffsetY]

\* A resize step with a ratio locked that the box had when the handle was
\* grabbed.
ResizeMove_Locked ==
  /\ ResizeStep
  /\ state.aspectRatioVal # NoAspect
  /\ RatioOf(state.resizeStartBoxWidth, state.resizeStartBoxHeight, state.aspectRatioVal)

\* The centre of the dimension that an edge handle does not drag is where
\* it was at the start of the gesture, to within 1 px.
CentreKept(s, s2) ==
  /\ s.resizeDir \in {"l", "r"} => Abs(s2.boxOffsetY - s.resizeStartBoxOffsetY) <= PX
  /\ s.resizeDir \in {"t", "b"} => Abs(s2.boxOffsetX - s.resizeStartBoxOffsetX) <= PX

\* C21: a resize with a locked ratio returns a box of that ratio, and an
\* edge drag leaves the centre of the other dimension where the gesture
\* found it.
C21_LockedRatioKept ==
  [][ResizeMove_Locked =>
       (HasRatio(state', state.aspectRatioVal) /\ CentreKept(state, state'))]_cropVars

\* The state in which animateReset, called on s, leaves the editor when
\* its loop has run to the closing frame with no other event in between.
ResetFinished(s) ==
  FinishState([s EXCEPT !.isAnimating = TRUE],
              [active |-> TRUE, p |-> 1, start |-> ResetStart(s), end |-> ResetEnd(s)])

\* The box of f is centred, baseScale is the scale, and the image covers
\* the four corners.
ResetOk(f) ==
  /\ f.boxOffsetX = 0 /\ f.boxOffsetY = 0
  /\ f.baseScale = f.scale
  /\ Covered(f)

\* C22: from every state of the editor in which a reset can be started
\* (with a target scale within the bound of the run), covered or not, the
\* finished reset leaves the box centred, baseScale
\* equal to the scale, and the four corners of the box covered by the
\* image.
C22_ResetCovers ==
  (~state.isAnimating /\ ResetBounded(state)) => ResetOk(ResetFinished(state))

\* s with the flip sign, the pan and the box offset of one axis negated.
Mirrored(s, axis) ==
  IF axis = "h"
  THEN [s EXCEPT !.flipX = -s.flipX, !.panX = -s.panX, !.boxOffsetX = -s.boxOffsetX]
  ELSE [s EXCEPT !.flipY = -s.flipY, !.panY = -s.panY, !.boxOffsetY = -s.boxOffsetY]

\* C23: flipBase negates the flip sign, the pan and the box offset of its
\* axis and changes no other field (isAnimating included: no animation is
\* started); the flip signs stay in {-1, 1}; the same flip applied twice
\* gives the state back.
C23_FlipNegatesOneAxis ==
  /\ state.flipX \in {-1, 1} /\ state.flipY \in {-1, 1}
  /\ \A axis \in {"h", "v"} :
       /\ handleFlipBase(state, axis) = Mirrored(state, axis)
       /\ handleFlipBase(handleFlipBase(state, axis), axis) = state
       /\ handleFlipBase(state, axis).flipX \in {-1, 1}
       /\ handleFlipBase(state, axis).flipY \in {-1, 1}

\* A flip about the vertical axis has been applied to a state at rest with
\* a pan that is not 0.
C23_Witness ==
  /\ state.flipX = -1 /\ state.flipY = 1
  /\ state.panX # 0 /\ AtRest

\* The fields that the loop of animateReset writes at each frame.
Interpolated(s) ==
  <<s.boxWidth, s.boxHeight, s.boxOffsetX, s.boxOffsetY, s.scale, s.panX, s.panY>>

\* A request for a reset: a pointer-up, a quarter turn, an orientation
\* toggle or an aspect choice.
ResetRequest == MouseUp \/ RotateBase \/ ToggleOrientation \/ AspectChange

\* C27: a request for a reset that arrives while the animation runs
\* leaves the running loop as it is (no second loop, the same start and
\* end) and does not change a field the loop interpolates.
C27_OneResetLoop ==
  [][(state.isAnimating /\ anim.active /\ ResetRequest) =>
       (anim' = anim /\ Interpolated(state') = Interpolated(state))]_cropVars

\* C11: while isAnimating, a pointer-down over the image, a pointer-down
\* over a handle and a pointer-move each leave the crop state as it is: no
\* drag or resize starts, and pan, box size and box offset are written by
\* the animation frames only.
C11_IgnoredWhileAnimating ==
  state.isAnimating =>
    \A cx \in PtrXs, cy \in PtrYs :
      /\ handleMouseDown(state, cx * PX, cy * PX) = state
      /\ handleMouseMove(state, cx * PX, cy * PX) = state
      /\ \A dir \in HandleDirs :
           handleHandleMouseDown(state, dir, cx * PX, cy * PX) = state

\* An animation running over a drag that never ended: a pointer-move that
\* was not ignored would pan the image.
C11_Witness ==
  /\ state.isAnimating /\ anim.active /\ anim.p = 1
  /\ state.isDraggingImage

\* The state of the gesture machine, read from the flags in the order the
\* handlers test them: isAnimating first (every pointer handler returns on
\* it), then isResizingBox (the first branch of handleMouseUp), then
\* isDraggingImage.
EngineMode(s) ==
  IF s.isAnimating THEN "Animating"
  ELSE IF s.isResizingBox THEN "Resizing"
  ELSE IF s.isDraggingImage THEN "Dragging"
  ELSE "Idle"

\* A pointer-up while Dragging: Idle, and no animation loop started.
DragRelease ==
  (EngineMode(state) = "Dragging" /\ MouseUp) =>
    (EngineMode(state') = "Idle" /\ anim' = anim /\ ~anim'.active)

\* A pointer-up while Resizing: the flag cleared and the reset animation
\* started on the state the pointer-up found.
ResizeRelease ==
  (EngineMode(state) = "Resizing" /\ MouseUp) =>
    /\ ~state'.isResizingBox
    /\ EngineMode(state') = "Animating"
    /\ anim'.active /\ anim'.p = 0
    /\ anim'.end = ResetEnd(state)

\* C12: a pointer-up while Dragging returns to Idle without an animation;
\* a pointer-up while Resizing clears the resize flag and starts the reset
\* animation; and, frames being delivered, an animation running with no
\* gesture flag set ends in Idle.
C12_ReleaseAndSettle ==
  /\ [][DragRelease]_cropVars
  /\ [][ResizeRelease]_cropVars
  /\ (state.isAnimating /\ ~state.isDraggingImage /\ ~state.isResizingBox)
       ~> (EngineMode(state) = "Idle")

\* Idle again after a handle was grabbed and released: the animation that
\* the release started has run to its closing frame.
C12_Witness ==
  /\ EngineMode(state) = "Idle"
  /\ state.resizeDir # NoDir
  /\ state.boxOffsetX = 0 /\ state.boxOffsetY = 0
  /\ state.baseScale = state.scale
  /\ state.boxWidth # InitialCropState(<<state.naturalWidth, state.naturalHeight>>).boxWidth

\* ------------------------------------------------------------------------
\* Plugins
\* ------------------------------------------------------------------------

\* pluginRegistry: the two registered plugins.  'unique-id' is the plugin
\* of the plugin specification (README), the one documented plugin whose
\* getEffectRadius is not 0; the exporter is run on a registry holding it.
RegistryPlugins == {"contrast", "ui-sample1"}
DocumentedPlugin == "unique-id"
Registered == RegistryPlugins \cup {DocumentedPlugin}
getPlugin(id) == id \in Registered

\* plugin.parameters: key and default of each declared parameter.  A
\* checkbox default of false is written 0; intensity is held in tenths
\* (default 0.5).
Parameters(pluginId) ==
  IF pluginId = "contrast" THEN << [key |-> "contrast", default |-> 0] >>
  ELSE IF pluginId = "ui-sample1"
  THEN << [key |-> "bw", default |-> 0], [key |-> "mode", default |-> 0],
          [key |-> "saturation", default |-> 0], [key |-> "hue", default |-> 0] >>
  ELSE IF pluginId = DocumentedPlugin THEN << [key |-> "intensity", default |-> 5] >>
  ELSE << >>

ParamKeys(pluginId) == {Parameters(pluginId)[i].key : i \in 1..Len(Parameters(pluginId))}
DefaultOf(pluginId, key) ==
  LET ps == Parameters(pluginId)
  IN ps[CHOOSE i \in 1..Len(ps) : ps[i].key = key].default

\* A params object is a function from the keys it holds to their values.
NoParams == [k \in {} |-> 0]
\* { ...a, ...b }
Spread(a, b) ==
  [k \in DOMAIN a \cup DOMAIN b |-> IF k \in DOMAIN b THEN b[k] ELSE a[k]]
\* { ...a, [key]: value }
WithKey(a, key, value) ==
  [k \in DOMAIN a \cup {key} |-> IF k = key THEN value ELSE a[k]]
\* params[key] ?? dflt
Coalesce(params, key, dflt) == IF key \in DOMAIN params THEN params[key] ELSE dflt

\* createUniforms(plugin, params): one uniform per declared parameter,
\* params[p.key] ?? p.default.
createUniforms(pluginId, params) ==
  [k \in ParamKeys(pluginId) |-> Coalesce(params, k, DefaultOf(pluginId, k))]

\* ------------------------------------------------------------------------
\* Store (useAppStore) and live render pipeline (Engine)
\* ------------------------------------------------------------------------

VARIABLES
  store,    \* imageSrc, layers, transientParams
  engine,   \* the Engine's fields
  nextId,   \* the next fresh layer id (uuidv4)
  note,     \* what the engine did with the last store notification
  events    \* number of store actions dispatched so far

pipeVars == <<store, engine, nextId, note, events>>

\* Bound on the number of layers ever created.
MaxLayerIds == 2
\* Bound on the number of store actions of one run.
MaxEvents == 6
\* The image sources set on the store.
Srcs == {"a.png", "b.png"}
NoSrc == "none"
\* The parameter values the sliders are dragged to, and the keys they drive.
ParamValues == {30, 70}
DrivenKeys(pluginId) == IF pluginId = "contrast" THEN {"contrast"} ELSE {"hue"}

LayerIds(layers) == {layers[i].id : i \in 1..Len(layers)}
LayerOf(layers, id) == layers[CHOOSE i \in 1..Len(layers) : layers[i].id = id]

\* transientParams[layerId] || {}
TransientOf(transientParams, id) ==
  IF id \in DOMAIN transientParams THEN transientParams[id] ELSE NoParams

\* layers.map(l => `${l.id}-${l.visible}`): one entry per layer, made of
\* its id and its visible flag.
Structure(layers) == [i \in 1..Len(layers) |-> <<layers[i].id, layers[i].visible>>]

\* A comparison by length alone.
arraysEqual_LengthOnly(a, b) == Len(a) = Len(b)

\* arraysEqual(a, b)
RECURSIVE arraysEqualFrom(_, _, _)
arraysEqualFrom(a, b, i) ==
  IF i > Len(a) THEN TRUE
  ELSE IF a[i] # b[i] THEN FALSE
  ELSE arraysEqualFrom(a, b, i + 1)
arraysEqual(a, b) == IF Len(a) # Len(b) THEN FALSE ELSE arraysEqualFrom(a, b, 1)

BasePass == [layer |-> 0, plugin |-> "base", uniforms |-> NoParams]

\* A build loop that does not look the plugin up: every visible layer
\* gets a pass.
RECURSIVE BuildPasses_AnyPlugin(_, _, _, _)
BuildPasses_AnyPlugin(layers, transientParams, i, acc) ==
  IF i > Len(layers) THEN acc
  ELSE LET layer == layers[i]
       IN IF ~layer.visible
          THEN BuildPasses_AnyPlugin(layers, transientParams, i + 1, acc)
          ELSE LET currentParams == Spread(layer.params, TransientOf(transientParams, layer.id))
                   pass == [layer |-> layer.id, plugin |-> layer.pluginId,
                            uniforms |-> [k \in ParamKeys(layer.pluginId) |->
                                            Coalesce(currentParams, k, 0)]]
                   passes == Append(acc.passes, pass)
               IN BuildPasses_AnyPlugin(layers, transientParams, i + 1,
                    [passes |-> passes,
                     passMap |-> WithKey(acc.passMap, layer.id, Len(passes))])

\* rebuildPipeline's forEach over layers i..: a shader pass for each
\* visible layer whose plugin is registered, appended to the composer and
\* entered in passMap.
RECURSIVE BuildPasses(_, _, _, _)
BuildPasses(layers, transientParams, i, acc) ==
  IF i > Len(layers) THEN acc
  ELSE LET layer == layers[i]
       IN IF ~layer.visible \/ ~getPlugin(layer.pluginId)
          THEN BuildPasses(layers, transientParams, i + 1, acc)
          ELSE LET currentParams == Spread(layer.params, TransientOf(transientParams, layer.id))
                   pass == [layer |-> layer.id, plugin |-> layer.pluginId,
                            uniforms |-> createUniforms(layer.pluginId, currentParams)]
                   passes == Append(acc.passes, pass)
               IN BuildPasses(layers, transientParams, i + 1,
                    [passes |-> passes,
                     passMap |-> WithKey(acc.passMap, layer.id, Len(passes))])

\* A rebuild that gives every layer a pass, hidden or not.
rebuildPipeline_HiddenToo(e, st) ==
  IF e.imageTexture = NoSrc THEN e
  ELSE LET shown == [i \in 1..Len(st.layers) |-> [st.layers[i] EXCEPT !.visible = TRUE]]
           b == BuildPasses(shown, st.transientParams, 1,
                            [passes |-> <<BasePass>>, passMap |-> NoParams])
       IN [e EXCEPT !.hasComposer = TRUE, !.gen = e.gen + 1,
                    !.passes = b.passes, !.passMap = b.passMap,
                    !.prevLayerStructure = Structure(st.layers)]

\* rebuildPipeline: nothing without a texture; else a new render target
\* and a new composer with a new base mesh, the base pass and new layer
\* passes, passMap rebuilt, the structure recorded.  gen counts the
\* rebuilds: the objects of the n-th rebuild are the objects of gen n.
rebuildPipeline(e, st) ==
  IF e.imageTexture = NoSrc THEN e
  ELSE LET b == BuildPasses(st.layers, st.transientParams, 1,
                            [passes |-> <<BasePass>>, passMap |-> NoParams])
       IN [e EXCEPT !.hasComposer = TRUE, !.gen = e.gen + 1,
                    !.passes = b.passes, !.passMap = b.passMap,
                    !.prevLayerStructure = Structure(st.layers)]

\* A patch that reads the committed params only.
PatchedUniforms_CommittedOnly(layer, transientParams, uniforms) ==
  [k \in DOMAIN uniforms |->
     IF k \in ParamKeys(layer.pluginId)
     THEN Coalesce(layer.params, k, DefaultOf(layer.pluginId, k))
     ELSE uniforms[k]]

\* updatePassParameters, the uniforms it leaves on the pass of one layer:
\* for each declared parameter, currentParams[p.key] ?? p.default, written
\* if the pass has that uniform.
PatchedUniforms(layer, transientParams, uniforms) ==
  LET currentParams == Spread(layer.params, TransientOf(transientParams, layer.id))
  IN [k \in DOMAIN uniforms |->
        IF k \in ParamKeys(layer.pluginId)
        THEN Coalesce(currentParams, k, DefaultOf(layer.pluginId, k))
        ELSE uniforms[k]]

\* updatePassParameters' forEach over layers i..: layers without a pass,
\* hidden layers and layers of unknown plugins are skipped.
RECURSIVE PatchPasses(_, _, _, _, _)
PatchPasses(layers, transientParams, passMap, i, passes) ==
  IF i > Len(layers) THEN passes
  ELSE LET layer == layers[i]
       IN IF layer.id \notin DOMAIN passMap \/ ~layer.visible \/ ~getPlugin(layer.pluginId)
          THEN PatchPasses(layers, transientParams, passMap, i + 1, passes)
          ELSE LET n == passMap[layer.id]
               IN PatchPasses(layers, transientParams, passMap, i + 1,
                    [passes EXCEPT ![n].uniforms =
                       PatchedUniforms(layer, transientParams, passes[n].uniforms)])

updatePassParameters(e, st) ==
  [e EXCEPT !.passes = PatchPasses(st.layers, st.transientParams, e.passMap, 1, e.passes)]

\* A render that takes no account of compare mode.
render_IgnoresCompare(e, st) ==
  [e EXCEPT !.frame = IF e.hasComposer THEN "composer" ELSE "base"]

\* render: the composer's chain, or, in compare mode or without a
\* composer, the scene alone.  frame is what was drawn last.
render(e, st) ==
  [e EXCEPT !.frame = IF e.hasComposer /\ ~st.isComparing THEN "composer" ELSE "base"]

CACHE_LIMIT == 8

\* The FIFO texture cache is the sequence of its keys in insertion order.
InCache(cache, src) == \E i \in 1..Len(cache) : cache[i] = src
CachePut(cache, src) ==
  LET c == IF InCache(cache, src) THEN cache ELSE Append(cache, src)
  IN IF Len(c) > CACHE_LIMIT THEN Tail(c) ELSE c

\* loadImage(src): a cached texture is installed at once and the pipeline
\* rebuilt; otherwise an image load is started.
loadImage(e, st, src) ==
  IF InCache(e.textureCache, src)
  THEN render(rebuildPipeline([e EXCEPT !.imageTexture = src,
                                         !.prevLayerStructure = << >>], st), st)
  ELSE [e EXCEPT !.pending = e.pending \cup {src}]

\* The textures that caching src evicts (and disposes).
Evicted(cache, src) ==
  IF ~InCache(cache, src) /\ Len(cache) + 1 > CACHE_LIMIT
  THEN {<<"texture", cache[1]>>} ELSE {}

\* img.onload of loadImage(src): the texture is cached and installed, the
\* pipeline rebuilt.
onImageLoad(e, st, src) ==
  render(rebuildPipeline([e EXCEPT !.pending = e.pending \ {src},
                                   !.textureCache = CachePut(e.textureCache, src),
                                   !.released = e.released \cup Evicted(e.textureCache, src),
                                   !.imageTexture = src,
                                   !.prevLayerStructure = << >>], st), st)

\* The subscriber on state.layers: the branch it takes.
layersPath(e, st) ==
  IF e.imageTexture = NoSrc THEN "none"
  ELSE IF ~arraysEqual(e.prevLayerStructure, Structure(st.layers)) THEN "rebuild"
  ELSE "patch"

onLayers(e, st) ==
  IF layersPath(e, st) = "rebuild" THEN render(rebuildPipeline(e, st), st)
  ELSE IF layersPath(e, st) = "patch" THEN render(updatePassParameters(e, st), st)
  ELSE e

\* A transientParams subscriber that builds the pipeline anew.
onTransient_Rebuild(e, st) ==
  IF e.imageTexture # NoSrc THEN render(rebuildPipeline(e, st), st) ELSE e

\* The subscriber on state.transientParams.
onTransient(e, st) ==
  IF e.imageTexture # NoSrc THEN render(updatePassParameters(e, st), st) ELSE e

\* The subscriber on state.isComparing.
onComparing(e, st) == render(e, st)

\* The layers and the plugins of the passes, in chain order.
PassGraph(e) == [i \in 1..Len(e.passes) |-> <<e.passes[i].layer, e.passes[i].plugin>>]

\* What the layers subscriber did with a notification that found the
\* engine e and left it e2: whether a texture was loaded, the structure
\* recorded before, the branch taken, whether the pass graph was kept.
LayersNote(e, e2, st) ==
  [event |-> "layers", loaded |-> e.imageTexture # NoSrc,
   prev |-> e.prevLayerStructure, path |-> layersPath(e, st),
   kept |-> PassGraph(e2) = PassGraph(e) /\ e2.passMap = e.passMap,
   allocs |-> e2.gen - e.gen]
OtherNote(ev) ==
  [event |-> ev, loaded |-> FALSE, prev |-> << >>, path |-> "none", kept |-> TRUE,
   allocs |-> 0]
\* What a subscriber that is to leave the pipeline alone did: whether a
\* texture was loaded, whether the pass graph, the pass map and the
\* recorded structure were kept, and how many rebuilds it ran.
KeptNote(ev, e, e2) ==
  [event |-> ev, loaded |-> e.imageTexture # NoSrc, prev |-> e.prevLayerStructure,
   path |-> "none",
   kept |-> /\ PassGraph(e2) = PassGraph(e) /\ e2.passMap = e.passMap
            /\ e2.hasComposer = e.hasComposer
            /\ e2.prevLayerStructure = e.prevLayerStructure,
   allocs |-> e2.gen - e.gen]

\* setImage(src) and the subscriber on state.imageSrc.
SetImage ==
  \E src \in Srcs :
    /\ events < MaxEvents
    /\ src # store.imageSrc
    /\ store' = [store EXCEPT !.imageSrc = src]
    /\ engine' = loadImage(engine, store', src)
    /\ note' = OtherNote("image")
    /\ events' = events + 1
    /\ UNCHANGED nextId

ImageLoaded ==
  \E src \in engine.pending :
    /\ engine' = onImageLoad(engine, store, src)
    /\ note' = OtherNote("image")
    /\ UNCHANGED <<store, nextId, events>>

\* Every write of state.layers is followed by the layers subscriber.
WriteLayers(newLayers) ==
  /\ events < MaxEvents
  /\ events' = events + 1
  /\ store' = [store EXCEPT !.layers = newLayers]
  /\ engine' = onLayers(engine, store')
  /\ note' = LayersNote(engine, engine', store')

\* addLayer(pluginId)
AddLayer ==
  \E pluginId \in RegistryPlugins :
    /\ nextId <= MaxLayerIds
    /\ WriteLayers(Append(store.layers,
          [id |-> nextId, pluginId |-> pluginId, visible |-> TRUE, params |-> NoParams]))
    /\ nextId' = nextId + 1

\* addLayer(pluginId) with an id that pluginRegistry does not hold (the
\* library lists registered plugins only; such an id comes with layers
\* made for another registry).
ForeignPlugins == {"missing"}
AddForeignLayer ==
  \E pluginId \in ForeignPlugins :
    /\ nextId <= MaxLayerIds
    /\ WriteLayers(Append(store.layers,
          [id |-> nextId, pluginId |-> pluginId, visible |-> TRUE, params |-> NoParams]))
    /\ nextId' = nextId + 1

\* removeLayer(id)
RemoveLayer ==
  \E id \in LayerIds(store.layers) :
    /\ WriteLayers(SelectSeq(store.layers, LAMBDA l : l.id # id))
    /\ UNCHANGED nextId

\* arrayMove(array, from, to) of the layer list's drag and drop.
arrayMove(a, from, to) ==
  LET without == [i \in 1..(Len(a) - 1) |-> IF i < from THEN a[i] ELSE a[i + 1]]
  IN [i \in 1..Len(a) |-> IF i < to THEN without[i]
                           ELSE IF i = to THEN a[from] ELSE without[i - 1]]

\* reorderLayers(arrayMove(layers, oldIndex, newIndex))
ReorderLayers ==
  \E from \in 1..Len(store.layers), to \in 1..Len(store.layers) :
    /\ from # to
    /\ WriteLayers(arrayMove(store.layers, from, to))
    /\ UNCHANGED nextId

\* A visibility change: the store has no action of its own for it; the
\* layer list with one visible flag changed is written by
\* reorderLayers(newLayers).
SetVisibility ==
  \E i \in 1..Len(store.layers) :
    /\ WriteLayers([store.layers EXCEPT ![i].visible = ~store.layers[i].visible])
    /\ UNCHANGED nextId

\* setTransientParam(layerId, key, value) and the transientParams subscriber.
SetTransientParam ==
  \E id \in LayerIds(store.layers), value \in ParamValues :
    \E key \in DrivenKeys(LayerOf(store.layers, id).pluginId) :
      /\ events < MaxEvents
      /\ events' = events + 1
      /\ store' = [store EXCEPT !.transientParams =
            WithKey(store.transientParams, id,
                    WithKey(TransientOf(store.transientParams, id), key, value))]
      /\ engine' = onTransient(engine, store')
      /\ note' = KeptNote("transient", engine, engine')
      /\ UNCHANGED nextId

\* { [layerId]: _, ...remainingTransients }
Without(f, id) == [k \in DOMAIN f \ {id} |-> f[k]]

\* commitParam(layerId, key, value) as the store computes it: transientParams
\* without the entry of layerId, and the layer's params with key set.
commitParam(st, id, key, value) ==
  [st EXCEPT
     !.transientParams = Without(st.transientParams, id),
     !.layers = [i \in 1..Len(st.layers) |->
        IF st.layers[i].id = id
        THEN [st.layers[i] EXCEPT !.params = WithKey(@, key, value)]
        ELSE st.layers[i]]]

\* commitParam(layerId, key, value): the layer's transient entry is dropped
\* and the value written into its params; the layers subscriber runs, then
\* the transientParams subscriber.
CommitParam ==
  \E id \in LayerIds(store.layers), value \in ParamValues :
    \E key \in DrivenKeys(LayerOf(store.layers, id).pluginId) :
      /\ events < MaxEvents
      /\ events' = events + 1
      /\ store' = commitParam(store, id, key, value)
      /\ engine' = onTransient(onLayers(engine, store'), store')
      /\ note' = LayersNote(engine, engine', store')
      /\ UNCHANGED nextId

\* setIsComparing(v) and the subscriber on state.isComparing, which runs
\* when the value changed.
SetIsComparing ==
  \E v \in BOOLEAN :
    /\ events < MaxEvents
    /\ v # store.isComparing
    /\ events' = events + 1
    /\ store' = [store EXCEPT !.isComparing = v]
    /\ engine' = onComparing(engine, store')
    /\ note' = KeptNote("compare", engine, engine')
    /\ UNCHANGED nextId

\* The GPU resources of the rebuild of generation g: the render target
\* and the composer, the geometry and the material of the base mesh.
RebuildResources(g) ==
  {<<"renderTarget", g>>, <<"composer", g>>, <<"geometry", g>>, <<"material", g>>}

\* Resources the engine e has allocated: the renderer (constructor), the
\* image texture, the resources of every rebuild, and the shader material
\* of each layer pass of the composer in use.  (The shader materials of
\* the earlier composers are not listed: the engine keeps no trace of
\* them.)
Allocated(e) ==
  {<<"renderer", 0>>}
  \cup (IF e.imageTexture # NoSrc THEN {<<"texture", e.imageTexture>>} ELSE {})
  \cup UNION {RebuildResources(g) : g \in 1..e.gen}
  \cup {<<"passMaterial", e.gen, e.passes[i].layer>> : i \in 2..Len(e.passes)}

\* dispose(): the renderer, the image texture, and the geometry and the
\* material of the meshes in the scene (the mesh of the last rebuild; the
\* scene is cleared at each rebuild) are disposed, passMap is cleared.
dispose(e) ==
  [e EXCEPT !.passMap = NoParams,
            !.released = e.released \cup {<<"renderer", 0>>}
              \cup (IF e.imageTexture # NoSrc THEN {<<"texture", e.imageTexture>>} ELSE {})
              \cup (IF e.gen > 0 THEN {<<"geometry", e.gen>>, <<"material", e.gen>>}
                    ELSE {})]

\* The cleanup of the editor's effect: engine.dispose(), once.  The store
\* subscriptions are not cancelled.
DisposeEngine ==
  /\ events < MaxEvents
  /\ <<"renderer", 0>> \notin engine.released
  /\ events' = events + 1
  /\ engine' = dispose(engine)
  /\ note' = OtherNote("dispose")
  /\ UNCHANGED <<store, nextId>>

PipeInit ==
  /\ store = [imageSrc |-> NoSrc, layers |-> << >>, transientParams |-> NoParams,
              isComparing |-> FALSE]
  /\ engine = [imageTexture |-> NoSrc, pending |-> {}, hasComposer |-> FALSE,
               passes |-> << >>, passMap |-> NoParams,
               prevLayerStructure |-> << >>, textureCache |-> << >>,
               gen |-> 0, frame |-> "none", released |-> {}]
  /\ nextId = 1
  /\ note = OtherNote("none")
  /\ events = 0

PipeNext ==
  \/ SetImage
  \/ ImageLoaded
  \/ AddLayer
  \/ RemoveLayer
  \/ ReorderLayers
  \/ SetVisibility
  \/ SetTransientParam
  \/ CommitParam

\* The engine with compare mode and its disposal as well.
EngineNext ==
  \/ PipeNext
  \/ SetIsComparing
  \/ DisposeEngine
  \/ AddForeignLayer

\* The value a declared parameter resolves to: the transient override if
\* present, else the committed value, else the schema default.
Resolved(layer, transientParams, key) ==
  LET tr == TransientOf(transientParams, layer.id)
  IN IF key \in DOMAIN tr THEN tr[key]
     ELSE IF key \in DOMAIN layer.params THEN layer.params[key]
     ELSE DefaultOf(layer.pluginId, key)

Loaded == engine.imageTexture # NoSrc

\* C25: commitParam(layerId, key, value) makes value the resolved value of
\* that key of that layer and leaves the resolved value of every other key
\* of the layer, and of every key of every other layer, as it was, whatever
\* the transient overlay held before.
ResolvedAll(st) ==
  [i \in 1..Len(st.layers) |->
     [k \in ParamKeys(st.layers[i].pluginId) |->
        Resolved(st.layers[i], st.transientParams, k)]]
CommitFrame(st, id, key, value) ==
  [i \in 1..Len(st.layers) |->
     [k \in ParamKeys(st.layers[i].pluginId) |->
        IF st.layers[i].id = id /\ k = key THEN value
        ELSE Resolved(st.layers[i], st.transientParams, k)]]
C25_CommitChangesOneKey ==
  \A id \in LayerIds(store.layers), value \in ParamValues :
    \A key \in ParamKeys(LayerOf(store.layers, id).pluginId) :
      ResolvedAll(commitParam(store, id, key, value)) = CommitFrame(store, id, key, value)


\* C2: with an image loaded, for every visible layer and every parameter
\* its plugin declares, the uniform on the layer's pass (left there by the
\* patch path or by a rebuild) is the one a full rebuild from the same
\* layers and transient overlay produces, and is the transient override if
\* present, else the committed value, else the schema default.
C2_PatchEqualsRebuild ==
  Loaded =>
    \A i \in 1..Len(store.layers) :
      LET layer == store.layers[i]
      IN (layer.visible /\ getPlugin(layer.pluginId)) =>
           /\ layer.id \in DOMAIN engine.passMap
           /\ LET rebuilt == rebuildPipeline(engine, store)
                  mine == engine.passes[engine.passMap[layer.id]].uniforms
                  full == rebuilt.passes[rebuilt.passMap[layer.id]].uniforms
              IN /\ DOMAIN mine = ParamKeys(layer.pluginId)
                 /\ \A key \in ParamKeys(layer.pluginId) :
                      /\ mine[key] = full[key]
                      /\ mine[key] = Resolved(layer, store.transientParams, key)

\* The patch path has just run on a transient override that differs from
\* the committed value of the same parameter.
C2_Witness ==
  /\ Loaded
  /\ note.event = "transient"
  /\ \E i \in 1..Len(store.layers) :
       LET layer == store.layers[i]
           tr == TransientOf(store.transientParams, layer.id)
       IN /\ layer.visible
          /\ \E key \in DOMAIN tr \cap DOMAIN layer.params :
               /\ tr[key] # layer.params[key]
               /\ engine.passes[engine.passMap[layer.id]].uniforms[key] = tr[key]

\* Two (id, visible) sequences differ in length, in an id or in a flag.
StructureDiffers(a, b) ==
  \/ Len(a) # Len(b)
  \/ \E i \in 1..Min2(Len(a), Len(b)) : a[i][1] # b[i][1] \/ a[i][2] # b[i][2]

\* C3: a layers notification handled with a texture loaded rebuilds the
\* pipeline if and only if the (id, visible) sequence differs from the one
\* recorded at the previous build; otherwise it patches and the pass graph
\* and passMap are the ones it found.
C3_RebuildIffStructureDiffers ==
  (note.event = "layers" /\ note.loaded) =>
    /\ (note.path = "rebuild") <=> StructureDiffers(note.prev, Structure(store.layers))
    /\ (note.path # "rebuild") => (note.path = "patch" /\ note.kept)

\* A parameter commit on a loaded engine with two layers took the patch
\* branch.
C3_Witness ==
  /\ note.event = "layers" /\ note.loaded /\ note.path = "patch"
  /\ Len(store.layers) = 2
  /\ \E i \in 1..2 : DOMAIN store.layers[i].params # {}

\* The visible layers of registered plugins, in the order of the array.
VisibleLayers(layers) ==
  SelectSeq(layers, LAMBDA l : l.visible /\ getPlugin(l.pluginId))

Pipeline(e) == [e EXCEPT !.frame = "none"]

\* C24: when no image load is pending, the texture the engine draws is
\* the one of the store's imageSrc.
C24_TextureOfCurrentSrc ==
  (engine.pending = {} /\ store.imageSrc # NoSrc) => engine.imageTexture = store.imageSrc

\* C13: compare mode changes nothing but the frame drawn.  While it is
\* on, the frame drawn last is the base scene alone; the notification
\* keeps the composer, the pass graph, the pass map and the recorded
\* structure and runs no rebuild; and turning it on and off again (or off
\* and on) gives back the engine's fields, the frame being again the
\* composer's when there is one and compare mode is off.
C13_CompareIsAToggle ==
  /\ store.isComparing => engine.frame = "base"
  /\ note.event = "compare" => (note.kept /\ note.allocs = 0)
  /\ LET flipped == [store EXCEPT !.isComparing = ~store.isComparing]
         during == onComparing(engine, flipped)
         after == onComparing(during, store)
     IN /\ Pipeline(during) = Pipeline(engine)
        /\ Pipeline(after) = Pipeline(engine)
        /\ during.frame = (IF engine.hasComposer /\ store.isComparing
                           THEN "composer" ELSE "base")
        /\ engine.frame # "none" => after = engine

\* Compare mode has just been turned off again on a pipeline with a layer
\* pass: the composer's frame is back, the pipeline of generation 1 is
\* still the one in use.
C13_Witness ==
  /\ note.event = "compare" /\ note.loaded
  /\ ~store.isComparing
  /\ engine.frame = "composer"
  /\ Len(engine.passes) > 1
  /\ engine.gen = 2

\* C15: a transient-parameter notification, and a layers notification
\* whose (id, visible) sequence is the recorded one, run no rebuild: the
\* composer with its render target is the one of the same generation, the
\* pass graph and the pass map are the ones found; uniform values alone
\* may differ.
C15_PatchNeverAllocates ==
  /\ note.event = "transient" => (note.kept /\ note.allocs = 0)
  /\ (note.event = "layers" /\ note.loaded
        /\ ~StructureDiffers(note.prev, Structure(store.layers))) =>
       (note.kept /\ note.allocs = 0)

\* A slider drag has just been patched into the uniform of a layer's pass.
C15_Witness ==
  /\ note.event = "transient" /\ note.loaded
  /\ \E id \in DOMAIN store.transientParams \cap DOMAIN engine.passMap :
       \E key \in DOMAIN store.transientParams[id] :
         /\ engine.passes[engine.passMap[id]].uniforms[key] = store.transientParams[id][key]
         /\ engine.passes[engine.passMap[id]].uniforms[key]
              # DefaultOf(engine.passes[engine.passMap[id]].plugin, key)

\* dispose() has run on the engine.
Disposed(e) == <<"renderer", 0>> \in e.released

\* C29: once dispose() has run, no change of the store makes the engine
\* start or finish an image load, rebuild its pipeline, patch a uniform or
\* draw a frame: the engine stays as dispose() left it.
C29_DisposedEngineIsInert ==
  [][Disposed(engine) => engine' = engine]_pipeVars

\* C30: no texture that is in the texture cache, and no texture that is
\* the current one of an engine that was not disposed, has been disposed;
\* the cache holds at most CACHE_LIMIT entries, each once.
C30_CachedTexturesAlive ==
  /\ Len(engine.textureCache) <= CACHE_LIMIT
  /\ \A i, j \in 1..Len(engine.textureCache) :
       engine.textureCache[i] = engine.textureCache[j] => i = j
  /\ \A i \in 1..Len(engine.textureCache) :
       <<"texture", engine.textureCache[i]>> \notin engine.released
  /\ (~Disposed(engine) /\ engine.imageTexture # NoSrc)
       => <<"texture", engine.imageTexture>> \notin engine.released

\* C18: when dispose() has run, every GPU resource the engine allocated
\* has been released: the renderer, the image texture, and the render
\* target, the composer, the base mesh geometry and material of every
\* rebuild, and the shader-pass materials.
C18_DisposeReleasesAll ==
  note.event = "dispose" => Allocated(engine) \subseteq engine.released

\* ------------------------------------------------------------------------
\* Tiled exporter (TiledExporter.export, plain and crop-aware)
\* ------------------------------------------------------------------------

VARIABLES
  ex    \* one run of TiledExporter.export: its inputs, locals and output

tileSize == 2048
\* baseScale = Math.max(fullWidth, fullHeight) / BASE_SCALE_REF
BASE_SCALE_REF == 1080
\* A number of the padding loop: NaN, or num / BASE_SCALE_REF.
NaN == [nan |-> TRUE, num |-> 0]
Num(n) == [nan |-> FALSE, num |-> n]

\* plugin.getEffectRadius(params, baseScale) in units of 1/BASE_SCALE_REF px,
\* baseScale given by maxDim = max(fullWidth, fullHeight).  The registered
\* plugins return 0; the documented plugin returns
\* params.intensity * scale * 20.0, which is NaN when params holds no
\* intensity (intensity is in tenths).
getEffectRadius(pluginId, params, maxDim) ==
  IF pluginId = DocumentedPlugin
  THEN IF "intensity" \in DOMAIN params
       THEN Num(params["intensity"] * maxDim * 2) ELSE NaN
  ELSE Num(0)

\* The padding loop over layers i..: every layer whose plugin is registered
\* and has getEffectRadius is asked, with the layer's own params;
\* radius > maxPadding is false for NaN.
RECURSIVE PaddingLoop(_, _, _, _)
PaddingLoop(layers, maxDim, i, maxPadding) ==
  IF i > Len(layers) THEN maxPadding
  ELSE LET layer == layers[i]
       IN IF ~getPlugin(layer.pluginId)
          THEN PaddingLoop(layers, maxDim, i + 1, maxPadding)
          ELSE LET radius == getEffectRadius(layer.pluginId, layer.params, maxDim)
               IN IF ~radius.nan /\ radius.num > maxPadding
                  THEN PaddingLoop(layers, maxDim, i + 1, radius.num)
                  ELSE PaddingLoop(layers, maxDim, i + 1, maxPadding)

\* maxPadding = Math.ceil(maxPadding)
computePadding(layers, fullWidth, fullHeight) ==
  CeilDiv(PaddingLoop(layers, Max2(fullWidth, fullHeight), 1, 0), BASE_SCALE_REF)

\* The cropState argument: absent, or the box (1/PX px) and the scale (1/SC).
NoCropState == [cropped |-> FALSE, boxWidth |-> 0, boxHeight |-> 0, scale |-> 0]
\* Math.floor(cropState.boxWidth / cropState.scale), else the natural size.
exportWidth(job) ==
  IF job.crop.cropped THEN FloorDiv(job.crop.boxWidth * SC, PX * job.crop.scale)
  ELSE job.fullWidth
exportHeight(job) ==
  IF job.crop.cropped THEN FloorDiv(job.crop.boxHeight * SC, PX * job.crop.scale)
  ELSE job.fullHeight

\* The effect passes made before the loop: one per visible layer of a
\* registered plugin, with createUniforms(plugin, layer.params).
RECURSIVE ExportPasses(_, _, _)
ExportPasses(layers, i, acc) ==
  IF i > Len(layers) THEN acc
  ELSE LET layer == layers[i]
       IN IF ~layer.visible \/ ~getPlugin(layer.pluginId)
          THEN ExportPasses(layers, i + 1, acc)
          ELSE ExportPasses(layers, i + 1,
                 Append(acc, [layer |-> layer.id, plugin |-> layer.pluginId,
                              uniforms |-> createUniforms(layer.pluginId, layer.params)]))

\* A copy that starts at the corner of the buffer, padding included.
TileSrc_BufferCorner(maxPadding) == [srcX |-> 0, srcY |-> 0]

\* The source offset of drawImage inside the WebGL canvas.
TileSrc(maxPadding) == [srcX |-> maxPadding, srcY |-> maxPadding]

\* The camera of one tile; positions and frustum edges are doubled, so that
\* the halves of the code are integers.
TileCamera(job, W, H, tileX, tileY, currentTileW, currentTileH, maxPadding) ==
  LET renderX == tileX - maxPadding
      renderY == tileY - maxPadding
      renderW == currentTileW + maxPadding * 2
      renderH == currentTileH + maxPadding * 2
  IN [x2 |-> IF ~job.crop.cropped THEN 2 * renderX + renderW - job.fullWidth
             ELSE -W + 2 * tileX + currentTileW,
      y2 |-> IF ~job.crop.cropped THEN job.fullHeight - (2 * renderY + renderH)
             ELSE H - 2 * tileY - currentTileH,
      left2 |-> -renderW, right2 |-> renderW,
      top2 |-> renderH, bottom2 |-> -renderH]

\* A tile loop that never resizes the buffer: every tile, partial or not,
\* is rendered into the square the WebGL canvas was created with.
renderTile_FixedBuffer(job, W, H, x, y, maxPadding) ==
  LET tileX == x * tileSize
      tileY == y * tileSize
      currentTileW == Min2(tileSize, W - tileX)
      currentTileH == Min2(tileSize, H - tileY)
      src == TileSrc(maxPadding)
  IN [tileX |-> tileX, tileY |-> tileY, w |-> currentTileW, h |-> currentTileH,
      bufW |-> tileSize + maxPadding * 2, bufH |-> tileSize + maxPadding * 2,
      srcX |-> src.srcX, srcY |-> src.srcY,
      camera |-> TileCamera(job, W, H, tileX, tileY, currentTileW, currentTileH,
                            maxPadding)]

\* One iteration of the tile loop at column x, row y: the buffer is
\* resized to the padded tile, the camera placed, the tile rendered, and
\* its centre drawn into the output canvas.
renderTile(job, W, H, x, y, maxPadding) ==
  LET tileX == x * tileSize
      tileY == y * tileSize
      currentTileW == Min2(tileSize, W - tileX)
      currentTileH == Min2(tileSize, H - tileY)
      src == TileSrc(maxPadding)
  IN [tileX |-> tileX, tileY |-> tileY, w |-> currentTileW, h |-> currentTileH,
      bufW |-> currentTileW + maxPadding * 2, bufH |-> currentTileH + maxPadding * 2,
      srcX |-> src.srcX, srcY |-> src.srcY,
      camera |-> TileCamera(job, W, H, tileX, tileY, currentTileW, currentTileH,
                            maxPadding)]

\* The exports that are run: uncropped images, and images cropped to the
\* state the crop editor opens on, as it is or zoomed in by CropZooms.
ExportSizes == {<<4000, 3000>>, <<2048, 2048>>, <<2049, 1>>, <<100, 5000>>}
CroppedSizes == {<<4400, 3300>>, <<1100, 550>>}
CropZooms == {1, 2}
CropStateOf(img, zoom) ==
  LET s == InitialCropState(img)
  IN [cropped |-> TRUE, boxWidth |-> s.boxWidth, boxHeight |-> s.boxHeight,
      scale |-> s.scale * zoom]
Layer(id, pluginId, visible, params) ==
  [id |-> id, pluginId |-> pluginId, visible |-> visible, params |-> params]
Intensity(v) == [k \in {"intensity"} |-> v]
ExportLayerLists ==
  {<< >>,
   <<Layer(1, "contrast", TRUE, NoParams)>>,
   <<Layer(1, DocumentedPlugin, TRUE, Intensity(10))>>,
   <<Layer(1, DocumentedPlugin, FALSE, Intensity(10))>>,
   <<Layer(1, DocumentedPlugin, TRUE, NoParams)>>,
   <<Layer(1, "contrast", TRUE, NoParams), Layer(2, DocumentedPlugin, TRUE, Intensity(10))>>,
   <<Layer(1, DocumentedPlugin, FALSE, Intensity(10)), Layer(2, DocumentedPlugin, TRUE, Intensity(5))>>}
\* What the platform does to this export: nothing, getContext('2d')
\* returns null, an exception while the effect passes are constructed, an
\* exception in the body of the tile loop, or toBlob calling back with
\* null (a canvas it cannot encode).
Faults == {"none", "ctx", "pass", "tile", "blob"}
ExportJob(size, crop, layers, fault) ==
  [fullWidth |-> size[1], fullHeight |-> size[2], crop |-> crop, layers |-> layers,
   fault |-> fault]
ExportJobs ==
  {ExportJob(size, NoCropState, layers, fault) :
     size \in ExportSizes, layers \in ExportLayerLists, fault \in Faults}
  \cup UNION {{ExportJob(size, CropStateOf(size, zoom), layers, fault) :
                size \in CroppedSizes, layers \in ExportLayerLists, fault \in Faults} :
              zoom \in CropZooms}

\* phase is the position in export(): "ready" before the call, "tiles" in
\* the loop, "done" when the promise has its blob, "thrown" when an
\* exception left export(), "unsettled" when toBlob has called back with
\* null.  gpu: the renderer and the texture exist.
\* disposed: the cleanup after the loop has run.  dl is handleDownload's
\* position, exporting its isExporting flag, emitted the file download.
ExportIdle(job) ==
  [phase |-> "ready", job |-> job, W |-> 0, H |-> 0, maxPadding |-> 0,
   cols |-> 0, rows |-> 0, bufW |-> 0, bufH |-> 0, passes |-> << >>,
   x |-> 0, y |-> 0, tiles |-> << >>, gpu |-> FALSE, disposed |-> FALSE,
   dl |-> "idle", exporting |-> FALSE, emitted |-> FALSE]

\* An export that goes on without the 2D context.
exportSetup_NoContextCheck(x) ==
  LET job == x.job
      maxPadding == computePadding(job.layers, job.fullWidth, job.fullHeight)
      maxRenderSize == tileSize + maxPadding * 2
  IN [x EXCEPT !.phase = "tiles", !.gpu = TRUE,
               !.maxPadding = maxPadding,
               !.W = exportWidth(job), !.H = exportHeight(job),
               !.cols = CeilDiv(exportWidth(job), tileSize),
               !.rows = CeilDiv(exportHeight(job), tileSize),
               !.bufW = maxRenderSize, !.bufH = maxRenderSize,
               !.passes = ExportPasses(job.layers, 1, <<BasePass>>)]

\* export(), up to the tile loop: the padding, the export size, the grid,
\* the output canvas (throws without a context, before anything is
\* created on the GPU), the WebGL canvas of maxRenderSize, the renderer,
\* the texture, the passes.  An exception inside the forEach that makes
\* the effect passes leaves export() with the passes made so far.
exportSetup(x) ==
  LET job == x.job
      maxPadding == computePadding(job.layers, job.fullWidth, job.fullHeight)
      maxRenderSize == tileSize + maxPadding * 2
      passes == ExportPasses(job.layers, 1, <<BasePass>>)
      sized == [x EXCEPT !.maxPadding = maxPadding,
                         !.W = exportWidth(job), !.H = exportHeight(job),
                         !.cols = CeilDiv(exportWidth(job), tileSize),
                         !.rows = CeilDiv(exportHeight(job), tileSize)]
  IN IF job.fault = "ctx" THEN [sized EXCEPT !.phase = "thrown"]
     ELSE IF job.fault = "pass" /\ Len(passes) > 1
     THEN [sized EXCEPT !.phase = "thrown", !.gpu = TRUE,
                        !.bufW = maxRenderSize, !.bufH = maxRenderSize,
                        !.passes = SubSeq(passes, 1, Len(passes) - 1)]
     ELSE [sized EXCEPT !.phase = "tiles", !.gpu = TRUE,
                        !.bufW = maxRenderSize, !.bufH = maxRenderSize,
                        !.passes = passes]

\* handleDownload up to its await: nothing while an export runs; else the
\* flag is set and export() is called.
ExportBegin ==
  /\ ex.phase = "ready" /\ ~ex.exporting
  /\ ex' = exportSetup([ex EXCEPT !.dl = "awaiting", !.exporting = TRUE])

\* One iteration of the tile loop (rows outside, columns inside).
ExportTile ==
  /\ ex.phase = "tiles"
  /\ ex.y < ex.rows /\ ex.x < ex.cols
  /\ LET tile == renderTile(ex.job, ex.W, ex.H, ex.x, ex.y, ex.maxPadding)
         last == ex.x + 1 >= ex.cols
     IN ex' = [ex EXCEPT !.bufW = tile.bufW, !.bufH = tile.bufH,
                         !.tiles = Append(ex.tiles, tile),
                         !.x = IF last THEN 0 ELSE ex.x + 1,
                         !.y = IF last THEN ex.y + 1 ELSE ex.y]

\* An iteration of the tile loop that raises: the exception leaves both
\* loops and export(); the statements after the loop do not run.
ExportTileThrows ==
  /\ ex.phase = "tiles" /\ ex.job.fault = "tile"
  /\ ex.y < ex.rows /\ ex.x < ex.cols
  /\ ex' = [ex EXCEPT !.phase = "thrown"]

\* The callback of outputCanvas.toBlob: 'if (blob) resolve(blob)'.  A
\* canvas without pixels, or one the platform cannot encode, gives null,
\* and the promise is then neither resolved nor rejected.
toBlobCallback(x) ==
  IF x.job.fault = "blob" \/ x.W = 0 \/ x.H = 0 THEN "unsettled" ELSE "done"

\* After the loop: dispose and toBlob.
ExportFinish ==
  /\ ex.phase = "tiles"
  /\ ex.y >= ex.rows \/ ex.cols = 0
  /\ ex' = [ex EXCEPT !.phase = toBlobCallback(ex), !.disposed = TRUE]

\* handleDownload after its await: with the blob, the anchor is clicked;
\* with an exception, the catch block alerts; finally the flag is cleared.
handleDownloadSettle(x) ==
  [x EXCEPT !.dl = "settled", !.emitted = (x.phase = "done"), !.exporting = FALSE]

DownloadSettle ==
  /\ ex.dl = "awaiting" /\ ex.phase \in {"done", "thrown"}
  /\ ex' = handleDownloadSettle(ex)

ExportInit == \E job \in ExportJobs : ex = ExportIdle(job)

ExportNext ==
  \/ ExportBegin
  \/ ExportTile
  \/ ExportTileThrows
  \/ ExportFinish
  \/ DownloadSettle

Done == ex.phase = "done"

\* C16: whenever export() has been left after the renderer and the
\* texture were created, by its return or by an exception raised while
\* the passes were made or a tile was rendered, the cleanup (renderer,
\* texture and every effect pass disposed) has run.
C16_CleanupOnEveryExit ==
  (ex.phase \in {"done", "thrown"} /\ ex.gpu) => ex.disposed

\* C17: when the 2D context of the output canvas cannot be acquired,
\* export() leaves by an exception before anything is rendered or created
\* on the GPU, it returns no raster, handleDownload emits no file, and
\* once handleDownload has settled the exporting flag is clear.
C17_NoContextNoFile ==
  (ex.job.fault = "ctx" /\ ex.phase # "ready") =>
    /\ ex.phase = "thrown"
    /\ ex.tiles = << >> /\ ~ex.gpu
    /\ ~ex.emitted
    /\ ex.dl = "settled" => ~ex.exporting

\* handleDownload has settled an export that found no 2D context.
C17_Witness ==
  /\ ex.job.fault = "ctx" /\ ex.dl = "settled" /\ ex.phase = "thrown"
  /\ ex.job.layers # << >>

\* C28: every export that handleDownload has started settles, and the
\* exporting flag is cleared.
C28_ExportSettles ==
  ex.exporting ~> (ex.phase \in {"done", "thrown"} /\ ~ex.exporting)

\* The layers array without the layers whose plugin is not registered.
Known(layers) == SelectSeq(layers, LAMBDA l : getPlugin(l.pluginId))
Unknown(layers) == {i \in 1..Len(layers) : ~getPlugin(layers[i].pluginId)}

\* C14: a layer whose plugin id is not in the registry gets no pass and
\* no passMap entry, and build, patch and export give the other layers
\* exactly the passes and uniform values they give for the array without
\* that layer; the export padding is the same as well.
C14_UnknownPluginSkipped ==
  LET known == [store EXCEPT !.layers = Known(store.layers)]
  IN /\ \A i \in Unknown(store.layers) :
          /\ store.layers[i].id \notin DOMAIN engine.passMap
          /\ \A n \in 1..Len(engine.passes) : engine.passes[n].layer # store.layers[i].id
     /\ rebuildPipeline(engine, store).passes = rebuildPipeline(engine, known).passes
     /\ rebuildPipeline(engine, store).passMap = rebuildPipeline(engine, known).passMap
     /\ updatePassParameters(engine, store).passes = updatePassParameters(engine, known).passes
     /\ (Loaded /\ <<"renderer", 0>> \notin engine.released)
          => engine.passes = rebuildPipeline(engine, known).passes
     /\ ExportPasses(store.layers, 1, <<BasePass>>) = ExportPasses(known.layers, 1, <<BasePass>>)
     /\ \A size \in ExportSizes :
          computePadding(store.layers, size[1], size[2]) = computePadding(known.layers, size[1], size[2])

\* A patch has just run on an array where a layer of an unknown plugin
\* stands before a layer that has a pass.
C14_Witness ==
  /\ note.event = "transient" /\ Loaded
  /\ \E i \in Unknown(store.layers), j \in 1..Len(store.layers) :
       /\ i < j
       /\ store.layers[j].id \in DOMAIN engine.passMap
       /\ store.layers[j].id \in DOMAIN store.transientParams
       /\ Len(engine.passes) = 2

\* Two destination rectangles share no pixel.
Disjoint(a, b) ==
  \/ a.tileX + a.w <= b.tileX \/ b.tileX + b.w <= a.tileX
  \/ a.tileY + a.h <= b.tileY \/ b.tileY + b.h <= a.tileY

RECURSIVE SumArea(_, _)
SumArea(tiles, i) ==
  IF i > Len(tiles) THEN 0 ELSE tiles[i].w * tiles[i].h + SumArea(tiles, i + 1)

\* The buffer pixel drawn to export pixel (tileX + i, tileY + j) is
\* (srcX + i, srcY + j); the world point at its centre, under the tile's
\* camera and buffer size, is the world point a monolithic W x H render
\* shows at the centre of that export pixel (all coordinates doubled and
\* multiplied by the buffer size).
SampleMatches(t, W, H, i, j) ==
  LET c == t.camera
      frustW == (c.right2 - c.left2) \div 2
      frustH == (c.top2 - c.bottom2) \div 2
  IN /\ t.srcX + i >= 0 /\ t.srcX + i < t.bufW
     /\ t.srcY + j >= 0 /\ t.srcY + j < t.bufH
     /\ (c.x2 + c.left2) * t.bufW + (2 * (t.srcX + i) + 1) * frustW
          = (2 * (t.tileX + i) + 1 - W) * t.bufW
     /\ (c.y2 + c.top2) * t.bufH - (2 * (t.srcY + j) + 1) * frustH
          = (H - (2 * (t.tileY + j) + 1)) * t.bufH

\* The camera window of a tile spans the tile and the padding around it,
\* in export coordinates (doubled, relative to the raster's centre).
WindowSpansTile(t, W, H, P) ==
  LET c == t.camera
  IN /\ c.x2 + c.left2 = 2 * (t.tileX - P) - W
     /\ c.x2 + c.right2 = 2 * (t.tileX + t.w + P) - W
     /\ c.y2 + c.top2 = H - 2 * (t.tileY - P)
     /\ c.y2 + c.bottom2 = H - 2 * (t.tileY + t.h + P)

\* C5: for an export of W x H >= 1 x 1, the tiles written are those of the
\* cols x rows grid, their destination rectangles lie in the raster, are
\* pairwise disjoint and cover it, and every pixel written is the buffer
\* sample that the tile's camera window, the tile with the padding around
\* it, maps to that export coordinate.
C5_TilesEqualMonolithic ==
  (ex.phase # "ready" /\ ex.W >= 1 /\ ex.H >= 1) =>
    /\ \A k \in 1..Len(ex.tiles) :
         LET t == ex.tiles[k]
         IN /\ t.w >= 1 /\ t.h >= 1
            /\ t.tileX >= 0 /\ t.tileX + t.w <= ex.W
            /\ t.tileY >= 0 /\ t.tileY + t.h <= ex.H
            /\ \A m \in 1..Len(ex.tiles) : m # k => Disjoint(t, ex.tiles[m])
            /\ WindowSpansTile(t, ex.W, ex.H, ex.maxPadding)
            /\ \A i \in {0, t.w - 1}, j \in {0, t.h - 1} :
                 SampleMatches(t, ex.W, ex.H, i, j)
    /\ Done =>
         /\ ex.cols = CeilDiv(ex.W, tileSize) /\ ex.rows = CeilDiv(ex.H, tileSize)
         /\ Len(ex.tiles) = ex.cols * ex.rows
         /\ SumArea(ex.tiles, 1) = ex.W * ex.H

\* A finished export of several tiles, the last one partial, with padding.
C5_Witness ==
  /\ Done
  /\ ex.maxPadding > 0
  /\ Len(ex.tiles) >= 4
  /\ ex.tiles[Len(ex.tiles)].w < tileSize
  /\ ex.tiles[Len(ex.tiles)].h < tileSize

\* The padding the specification states: the ceiling of the largest
\* radius over the visible layers, each radius taken on the layer's
\* resolved parameters (the committed value, else the schema default).
ResolvedParams(layer) == createUniforms(layer.pluginId, layer.params)
RECURSIVE StatedLoop(_, _, _, _)
StatedLoop(layers, maxDim, i, acc) ==
  IF i > Len(layers) THEN acc
  ELSE LET layer == layers[i]
           radius == getEffectRadius(layer.pluginId, ResolvedParams(layer), maxDim)
       IN IF layer.visible /\ getPlugin(layer.pluginId) /\ ~radius.nan
             /\ radius.num > acc
          THEN StatedLoop(layers, maxDim, i + 1, radius.num)
          ELSE StatedLoop(layers, maxDim, i + 1, acc)
StatedPadding(job) ==
  CeilDiv(StatedLoop(job.layers, Max2(job.fullWidth, job.fullHeight), 1, 0),
          BASE_SCALE_REF)

\* C6: the export padding is the ceiling of the largest radius over the
\* visible layers only, on their resolved parameters, with
\* baseScale = max(imageWidth, imageHeight) / 1080.
C6_PaddingOverVisibleResolved ==
  ex.phase # "ready" => ex.maxPadding = StatedPadding(ex.job)

\* C7 as stated: every tile, the partial ones included, is rendered into a
\* square buffer of edge T + 2 * maxPadding.
C7_SquareBufferEveryTile ==
  \A k \in 1..Len(ex.tiles) :
    /\ ex.tiles[k].bufW = tileSize + 2 * ex.maxPadding
    /\ ex.tiles[k].bufH = tileSize + 2 * ex.maxPadding

\* C7: the WebGL canvas is created as a square of edge T + 2 * maxPadding
\* and every tile is rendered into a buffer of its own width and height
\* plus 2 * maxPadding, which is that square for a full tile only.
C7_BufferIsPaddedTile ==
  /\ (ex.phase = "tiles" /\ ex.tiles = << >>) =>
       (ex.bufW = tileSize + 2 * ex.maxPadding /\ ex.bufH = tileSize + 2 * ex.maxPadding)
  /\ \A k \in 1..Len(ex.tiles) :
       LET t == ex.tiles[k]
       IN /\ t.bufW = t.w + 2 * ex.maxPadding
          /\ t.bufH = t.h + 2 * ex.maxPadding
          /\ (t.bufW = tileSize + 2 * ex.maxPadding) <=> (t.w = tileSize)
          /\ (t.bufH = tileSize + 2 * ex.maxPadding) <=> (t.h = tileSize)
  /\ ex.tiles # << >> =>
       (ex.bufW = ex.tiles[Len(ex.tiles)].bufW /\ ex.bufH = ex.tiles[Len(ex.tiles)].bufH)

\* The 4000 x 3000 export with maxPadding 75: a 2 x 2 grid whose buffers
\* are 2198 x 2198, 2102 x 2198, 2198 x 1102 and 2102 x 1102.
C7_Witness ==
  /\ Done
  /\ ~ex.job.crop.cropped
  /\ ex.W = 4000 /\ ex.H = 3000 /\ ex.maxPadding = 75
  /\ ex.cols = 2 /\ ex.rows = 2
  /\ [k \in 1..4 |-> <<ex.tiles[k].bufW, ex.tiles[k].bufH>>]
       = << <<2198, 2198>>, <<2102, 2198>>, <<2198, 1102>>, <<2102, 1102>> >>

\* ------------------------------------------------------------------------
\* Binary floating point
\*
\* The program's numbers are IEEE doubles: every operation returns the
\* representable number nearest to the exact result, ties to the even
\* significand.  A float of the model is m * 2^e with a significand of
\* MantBits bits (a double has 53), rounded the same way; the exponent is
\* unbounded, so nothing overflows or underflows.
\* ------------------------------------------------------------------------

MantBits == 13
RECURSIVE Pow2(_)
Pow2(k) == IF k = 0 THEN 1 ELSE 2 * Pow2(k - 1)
RECURSIVE Log2(_)
Log2(g) == IF g = 1 THEN 0 ELSE 1 + Log2(g \div 2)
FMant == Pow2(MantBits)
FZero == [m |-> 0, e |-> 0]

\* The least power of two g >= g0 with a \div g < FMant (a >= 0).
RECURSIVE GridOf(_, _)
GridOf(a, g0) == IF a \div g0 < FMant THEN g0 ELSE GridOf(a, 2 * g0)

\* n / g rounded to the nearest integer, ties to even (g > 0).
RoundEven(n, g) ==
  LET q == n \div g
      r == n - q * g
  IN IF 2 * r < g THEN q
     ELSE IF 2 * r > g THEN q + 1
     ELSE IF q % 2 = 0 THEN q ELSE q + 1

\* A non-zero significand shifted up to MantBits bits.
RECURSIVE ScaleUp(_, _)
ScaleUp(m, e) ==
  IF 2 * Abs(m) >= FMant THEN [m |-> m, e |-> e] ELSE ScaleUp(2 * m, e - 1)

\* A significand that rounding carried up to FMant takes the next exponent.
Carry(m, e) ==
  IF Abs(m) = FMant THEN [m |-> m \div 2, e |-> e + 1] ELSE [m |-> m, e |-> e]

\* n * 2^e rounded on the grid g of its last place.
RoundOn(n, e, g) == Carry(RoundEven(n, g), e + Log2(g))

\* The float nearest to n * 2^e.
Norm(n, e) ==
  IF n = 0 THEN FZero
  ELSE IF Abs(n) < FMant THEN ScaleUp(n, e)
  ELSE RoundOn(n, e, GridOf(Abs(n), 1))

FInt(n) == Norm(n, 0)
FNeg(a) == [m |-> -a.m, e |-> a.e]
FAbs(a) == [m |-> Abs(a.m), e |-> a.e]
\* a / 2
FHalve(a) == IF a.m = 0 THEN a ELSE [m |-> a.m, e |-> a.e - 1]

\* a + b: the mantissas are aligned on the lower exponent; an operand
\* below a quarter of the other's last place leaves it unchanged.
FAdd(a, b) ==
  IF a.m = 0 THEN b
  ELSE IF b.m = 0 THEN a
  ELSE LET hi == IF a.e >= b.e THEN a ELSE b
           lo == IF a.e >= b.e THEN b ELSE a
           d == hi.e - lo.e
       IN IF d > MantBits + 1 THEN hi
          ELSE Norm(hi.m * Pow2(d) + lo.m, lo.e)
FSub(a, b) == FAdd(a, FNeg(b))
FMul(a, b) == Norm(a.m * b.m, a.e + b.e)
\* a / b for b # 0: the quotient of the significands is rounded on its
\* exact remainder.
QuotOn(sgn, n, dv, e, g) == Carry(sgn * RoundEven(n, dv * g), e + Log2(g))
FDiv(a, b) ==
  IF a.m = 0 THEN FZero
  ELSE LET sgn == IF (a.m < 0) = (b.m < 0) THEN 1 ELSE -1
           n == Abs(a.m) * FMant
           dv == Abs(b.m)
       IN QuotOn(sgn, n, dv, a.e - b.e - MantBits, GridOf(n \div dv, 1))
FLt(a, b) == FSub(a, b).m < 0
FGt(a, b) == FSub(a, b).m > 0
FMax(a, b) == IF FLt(a, b) THEN b ELSE a

\* ------------------------------------------------------------------------
\* calculateResize in floating point
\*
\* The same functions as above, on floats instead of fixed-point lengths,
\* for states whose smoothRotation is 0 (cos = 1, sin = 0).
\* ------------------------------------------------------------------------

\* The literals 0.1 and 1e-9.
FTenth == FDiv(FInt(1), FInt(10))
FEps == FDiv(FInt(1), Norm(1000000000, 0))
\* Math.cos(-rad), Math.sin(-rad) at smoothRotation = 0.
CosF == FInt(1)
SinF == FZero
\* Math.max(num1, num2) / Math.min(num1, num2) or its inverse, as <<num, den>>.
RatioF(r) == FDiv(FInt(r[1]), FInt(r[2]))

\* useCropState: the state set when the image has loaded (the fields the
\* resize reads).
\* The box that fits TARGET_VIEWPORT_SIZE at the aspect ratio given.
ViewportBoxF(aspect) ==
  IF FGt(aspect, FInt(1))
  THEN [w |-> FInt(TARGET_VIEWPORT_SIZE), h |-> FDiv(FInt(TARGET_VIEWPORT_SIZE), aspect)]
  ELSE [w |-> FMul(FInt(TARGET_VIEWPORT_SIZE), aspect), h |-> FInt(TARGET_VIEWPORT_SIZE)]

InitialStateOfF(natW, natH, box) ==
  [currentImgWidth |-> natW, currentImgHeight |-> natH,
   scale |-> FDiv(box.w, natW), panX |-> FZero, panY |-> FZero,
   boxWidth |-> box.w, boxHeight |-> box.h,
   boxOffsetX |-> FZero, boxOffsetY |-> FZero,
   aspectRatioVal |-> NoAspect]

InitialCropStateF(img) ==
  InitialStateOfF(FInt(img[1]), FInt(img[2]),
                  ViewportBoxF(FDiv(FInt(img[1]), FInt(img[2]))))

\* The four half-planes of the image, from its half extents on screen.
ConstraintsOfF(limW, limH, s) ==
  << [a |-> CosF, b |-> FNeg(SinF), d |-> FAdd(limW, s.panX)],
     [a |-> FNeg(CosF), b |-> SinF, d |-> FSub(limW, s.panX)],
     [a |-> SinF, b |-> CosF, d |-> FAdd(limH, s.panY)],
     [a |-> FNeg(SinF), b |-> FNeg(CosF), d |-> FSub(limH, s.panY)] >>

getConstraintsParamsF(s) ==
  ConstraintsOfF(FHalve(FMul(s.currentImgWidth, s.scale)),
                 FHalve(FMul(s.currentImgHeight, s.scale)), s)

\* cx -= c.a * diff; cy -= c.b * diff; satisfied = false
SweepPushF(c, acc, diff) ==
  [x |-> FSub(acc.x, FMul(c.a, diff)), y |-> FSub(acc.y, FMul(c.b, diff)),
   satisfied |-> FALSE]

\* One half-plane of a sweep, val = c.a * cx + c.b * cy.
SweepPlaneF(c, acc, val) ==
  IF FGt(val, FAdd(c.d, FEps)) THEN SweepPushF(c, acc, FSub(val, c.d)) ELSE acc

RECURSIVE ConstrainSweepF(_, _, _)
ConstrainSweepF(cons, k, acc) ==
  IF k > Len(cons) THEN acc
  ELSE ConstrainSweepF(cons, k + 1,
         SweepPlaneF(cons[k], acc,
                     FAdd(FMul(cons[k].a, acc.x), FMul(cons[k].b, acc.y))))

RECURSIVE ConstrainLoopF(_, _, _, _)
\* if (satisfied) break, with r the point after the sweep.
ConstrainBreakF(cons, i, r) ==
  IF r.satisfied THEN [x |-> r.x, y |-> r.y]
  ELSE ConstrainLoopF(cons, i + 1, r.x, r.y)

ConstrainLoopF(cons, i, cx, cy) ==
  IF i >= CONSTRAIN_ITERATIONS THEN [x |-> cx, y |-> cy]
  ELSE ConstrainBreakF(cons, i,
         ConstrainSweepF(cons, 1, [x |-> cx, y |-> cy, satisfied |-> TRUE]))

constrainPointF(x, y, s) == ConstrainLoopF(getConstraintsParamsF(s), 0, x, y)

\* Math.abs(c.x - p.x) > 0.1 || Math.abs(c.y - p.y) > 0.1
CornerMovedF(c, x, y) ==
  FGt(FAbs(FSub(c.x, x)), FTenth) \/ FGt(FAbs(FSub(c.y, y)), FTenth)

CornerOkF(x, y, s) == ~CornerMovedF(constrainPointF(x, y, s), x, y)

RectValidF(e, s) ==
  \A p \in {<<e.L, e.T>>, <<e.R, e.T>>, <<e.R, e.B>>, <<e.L, e.B>>} :
    CornerOkF(p[1], p[2], s)

\* The start box's edges, the dragged edges moved, crossed edges swapped.
\* if (dir.includes(side)) edge += delta
MovedEdgeF(edge, grabbed, delta) == IF grabbed THEN FAdd(edge, delta) ELSE edge

\* if (newL > newR) [newL, newR] = [newR, newL]; the same for newT, newB.
SwapCrossedF(L1, R1, T1, B1) ==
  [L |-> IF FGt(L1, R1) THEN R1 ELSE L1, R |-> IF FGt(L1, R1) THEN L1 ELSE R1,
   T |-> IF FGt(T1, B1) THEN B1 ELSE T1, B |-> IF FGt(T1, B1) THEN T1 ELSE B1]

ResizeEdgesF(dx, dy, dir, startW, startH, startOffX, startOffY) ==
  SwapCrossedF(MovedEdgeF(FSub(startOffX, FHalve(startW)), HasL(dir), dx),
               MovedEdgeF(FAdd(startOffX, FHalve(startW)), HasR(dir), dx),
               MovedEdgeF(FSub(startOffY, FHalve(startH)), HasT(dir), dy),
               MovedEdgeF(FAdd(startOffY, FHalve(startH)), HasB(dir), dy))

\* The aspect lock.  currentW / currentH > ratio at currentH = 0 is
\* Infinity > ratio for a positive width and NaN > ratio for a zero one.
\* newT -= hDiff / 2; newB += hDiff / 2
GrowHeightF(e, hDiff) ==
  [e EXCEPT !.T = FSub(e.T, FHalve(hDiff)), !.B = FAdd(e.B, FHalve(hDiff))]
\* newL -= wDiff / 2; newR += wDiff / 2
GrowWidthF(e, wDiff) ==
  [e EXCEPT !.L = FSub(e.L, FHalve(wDiff)), !.R = FAdd(e.R, FHalve(wDiff))]
\* A corner handle: the side that is too long for the ratio is cut.
CornerLockF(e, dir, ratio, currentW, currentH) ==
  IF (IF currentH.m = 0 THEN currentW.m > 0
      ELSE FGt(FDiv(currentW, currentH), ratio))
  THEN IF HasT(dir) THEN [e EXCEPT !.T = FSub(e.B, FDiv(currentW, ratio))]
       ELSE [e EXCEPT !.B = FAdd(e.T, FDiv(currentW, ratio))]
  ELSE IF HasL(dir) THEN [e EXCEPT !.L = FSub(e.R, FMul(currentH, ratio))]
       ELSE [e EXCEPT !.R = FAdd(e.L, FMul(currentH, ratio))]

AspectLockF(e, dir, ratio) ==
  IF dir \in {"l", "r"}
  THEN GrowHeightF(e, FSub(FDiv(FSub(e.R, e.L), ratio), FSub(e.B, e.T)))
  ELSE IF dir \in {"t", "b"}
  THEN GrowWidthF(e, FSub(FMul(FSub(e.B, e.T), ratio), FSub(e.R, e.L)))
  ELSE CornerLockF(e, dir, ratio, FSub(e.R, e.L), FSub(e.B, e.T))

ResizeAnchorF(e, dir) ==
  IF dir = "tl" THEN [x |-> e.R, y |-> e.B]
  ELSE IF dir = "br" THEN [x |-> e.L, y |-> e.T]
  ELSE IF dir = "tr" THEN [x |-> e.L, y |-> e.B]
  ELSE IF dir = "bl" THEN [x |-> e.R, y |-> e.T]
  ELSE [x |-> FHalve(FAdd(e.L, e.R)), y |-> FHalve(FAdd(e.T, e.B))]

\* anchor + (edge - anchor) * f
ScaleRectF(e, an, f) ==
  [L |-> FAdd(an.x, FMul(FSub(e.L, an.x), f)),
   R |-> FAdd(an.x, FMul(FSub(e.R, an.x), f)),
   T |-> FAdd(an.y, FMul(FSub(e.T, an.y), f)),
   B |-> FAdd(an.y, FMul(FSub(e.B, an.y), f))]

RECURSIVE BisectF(_, _, _, _, _, _, _)
BisectF(e, an, s, i, low, high, bestScale) ==
  IF i >= BISECT_ITERATIONS THEN bestScale
  ELSE LET mid == FHalve(FAdd(low, high))
       IN IF RectValidF(ScaleRectF(e, an, mid), s)
          THEN BisectF(e, an, s, i + 1, mid, high, mid)
          ELSE BisectF(e, an, s, i + 1, low, mid, bestScale)

ContainF(e, dir, s) ==
  IF RectValidF(e, s) THEN e
  ELSE LET an == ResizeAnchorF(e, dir)
       IN ScaleRectF(e, an, BisectF(e, an, s, 0, FZero, FInt(1), FZero))

\* if (newR - newL < 50) newR = newL + 50; the same for newB.
ResizeFloorF(e) ==
  LET R1 == IF FLt(FSub(e.R, e.L), FInt(MIN_BOX)) THEN FAdd(e.L, FInt(MIN_BOX)) ELSE e.R
      B1 == IF FLt(FSub(e.B, e.T), FInt(MIN_BOX)) THEN FAdd(e.T, FInt(MIN_BOX)) ELSE e.B
  IN [e EXCEPT !.R = R1, !.B = B1]

\* The candidate box before containment.
\* if (keepRatio && currentState.aspectRatioVal) on the edges e0.
KeepRatioF(e0, dir, keepRatio, s) ==
  IF keepRatio /\ s.aspectRatioVal # NoAspect
  THEN AspectLockF(e0, dir, RatioF(s.aspectRatioVal)) ELSE e0

ResizeCandidateF(dx, dy, dir, startW, startH, startOffX, startOffY, keepRatio, s) ==
  KeepRatioF(ResizeEdgesF(dx, dy, dir, startW, startH, startOffX, startOffY),
             dir, keepRatio, s)

\* The box returned: its size and its centre.
ResizeResultF(e) ==
  [w |-> FSub(e.R, e.L), h |-> FSub(e.B, e.T),
   x |-> FHalve(FAdd(e.L, e.R)), y |-> FHalve(FAdd(e.T, e.B))]

calculateResizeF(dx, dy, dir, startW, startH, startOffX, startOffY, keepRatio, s) ==
  ResizeResultF(ResizeFloorF(ContainF(
    ResizeCandidateF(dx, dy, dir, startW, startH, startOffX, startOffY,
                     keepRatio, s), dir, s)))

\* getMinScaleForBox in floating point.
\* Math.abs(r) / denom with denom = half + (r >= 0 ? relPan : -relPan), or 0.
ScaleReqF(r, denom) == IF denom.m > 0 THEN FDiv(FAbs(r), denom) ELSE FZero
AxisReqF(r, half, relPan) ==
  ScaleReqF(r, FAdd(half, IF r.m >= 0 THEN relPan ELSE FNeg(relPan)))

\* corners.forEach: minScale = Math.max(minScale, s_req_x, s_req_y)
RECURSIVE MinScaleLoopF(_, _, _, _, _, _)
MinScaleLoopF(cs, k, minScale, relPanX, relPanY, s) ==
  IF k > Len(cs) THEN minScale
  ELSE MinScaleLoopF(cs, k + 1,
         FMax(FMax(minScale,
                   AxisReqF(FSub(FMul(cs[k].x, CosF), FMul(cs[k].y, SinF)),
                            FHalve(s.currentImgWidth), relPanX)),
              AxisReqF(FAdd(FMul(cs[k].x, SinF), FMul(cs[k].y, CosF)),
                       FHalve(s.currentImgHeight), relPanY)),
         relPanX, relPanY, s)

getMinScaleForBoxF(boxW, boxH, relPanX, relPanY, s) ==
  MinScaleLoopF(<< [x |-> FNeg(FHalve(boxW)), y |-> FNeg(FHalve(boxH))],
                   [x |-> FHalve(boxW), y |-> FNeg(FHalve(boxH))],
                   [x |-> FHalve(boxW), y |-> FHalve(boxH)],
                   [x |-> FNeg(FHalve(boxW)), y |-> FHalve(boxH)] >>,
                1, FZero, relPanX, relPanY, s)

\* animateReset in floating point: the state its closing frame leaves.
\* The end values, from the target scale.
ResetEndOfF(s, box, relPanX, relPanY, targetScale) ==
  [s EXCEPT !.boxWidth = box.w, !.boxHeight = box.h,
            !.boxOffsetX = FZero, !.boxOffsetY = FZero,
            !.scale = targetScale,
            !.panX = FMul(relPanX, targetScale),
            !.panY = FMul(relPanY, targetScale)]

\* The target scale, from the target box and the relative pan.
ResetScaleF(s, box, relPanX, relPanY) ==
  ResetEndOfF(s, box, relPanX, relPanY,
    FMax(FMul(s.scale, FDiv(box.w, s.boxWidth)),
         getMinScaleForBoxF(box.w, box.h, relPanX, relPanY, s)))

ResetEndF(s) ==
  ResetScaleF(s,
    ViewportBoxF(IF s.aspectRatioVal # NoAspect THEN RatioF(s.aspectRatioVal)
                 ELSE FDiv(s.boxWidth, s.boxHeight)),
    FDiv(FSub(s.panX, FSub(FMul(s.boxOffsetX, CosF), FMul(s.boxOffsetY, SinF))),
         s.scale),
    FDiv(FSub(s.panY, FAdd(FMul(s.boxOffsetX, SinF), FMul(s.boxOffsetY, CosF))),
         s.scale))

\* handleAspectChange on a freshly opened image, its reset run to its end.
OrientedF(s, choice) ==
  [s EXCEPT !.aspectRatioVal =
     IF ~FLt(s.boxWidth, s.boxHeight) THEN choice ELSE <<choice[2], choice[1]>>]
AspectLockedF(img, choice) == ResetEndF(OrientedF(InitialCropStateF(img), choice))

\* ------------------------------------------------------------------------
\* The resize of one pointer move
\* ------------------------------------------------------------------------

VARIABLES
  rz    \* one call of calculateResize: its arguments and what it returned

\* The images opened, the pointer deltas (px) of the move, and the states
\* the handle is grabbed in: the image as opened, or with a ratio locked.
ResizeImages == {<<600, 400>>, <<1100, 550>>, <<600, 800>>}
DeltaXs == {-600, 0, 70}
DeltaYs == {-400, 0, 400}
ResizeContexts ==
  {InitialCropStateF(img) : img \in ResizeImages}
  \cup UNION {{AspectLockedF(img, choice) : img \in ResizeImages} : choice \in AspectChoices}

NoResult == [w |-> FZero, h |-> FZero, x |-> FZero, y |-> FZero]

ResizeInit ==
  \E s \in ResizeContexts, dir \in Dirs, dx \in DeltaXs, dy \in DeltaYs :
    rz = [phase |-> "grabbed", s |-> s, dir |-> dir, dx |-> dx, dy |-> dy,
          searched |-> FALSE, res |-> NoResult]

\* handleMouseMove on a box being resized: calculateResize on the box the
\* handle was grabbed with.
ResizeMove ==
  /\ rz.phase = "grabbed"
  /\ LET s == rz.s
         keepRatio == s.aspectRatioVal # NoAspect
         cand == ResizeCandidateF(FInt(rz.dx), FInt(rz.dy), rz.dir, s.boxWidth,
                   s.boxHeight, s.boxOffsetX, s.boxOffsetY, keepRatio, s)
     IN rz' = [rz EXCEPT !.phase = "moved",
                         !.searched = ~RectValidF(cand, s),
                         !.res = calculateResizeF(FInt(rz.dx), FInt(rz.dy), rz.dir,
                                   s.boxWidth, s.boxHeight, s.boxOffsetX,
                                   s.boxOffsetY, keepRatio, s)]

ResizeNext == ResizeMove

\* C8: the box returned by calculateResize has width >= 50 and
\* height >= 50, for every direction and delta, with or without a locked
\* ratio, whether or not the containment search ran.
C8_ResizeFloor ==
  rz.phase = "moved" =>
    /\ ~FLt(rz.res.w, FInt(MIN_BOX))
    /\ ~FLt(rz.res.h, FInt(MIN_BOX))

\* ------------------------------------------------------------------------
\* Specifications
\* ------------------------------------------------------------------------

\* ------------------------------------------------------------------------
\* The layer list, the selection and the undo history (useAppStore wrapped
\* in temporal)
\* ------------------------------------------------------------------------

VARIABLES
  app   \* layers and selectedLayerId of the store, and the history's stacks

\* Bound on the number of layers ever created in one run of the history.
MaxStoreIds == 2
\* Bound on the number of store calls of one run of the history.
MaxStoreEvents == 5
\* limit: 50
limit == 50
\* selectedLayerId: null
NoLayer == 0

\* partialize(state): what the history keeps of a state.  imageSrc and
\* cropState are not written by the actions below and are left out.
partialize(a) == [layers |-> a.layers]
\* equality(pastState, currentState): the layers' JSON texts are the same.
equality(pastState, currentState) == pastState.layers = currentState.layers

\* set(...) as temporal wraps it: the new fields are merged into the state,
\* and when the partialized state changed the one before is pushed onto
\* pastStates (the oldest dropped at the limit) and futureStates emptied.
temporalSet(a, next) ==
  LET pastState == partialize(a)
      kept == IF Len(a.pastStates) >= limit THEN Tail(a.pastStates) ELSE a.pastStates
  IN IF equality(pastState, partialize(next)) THEN next
     ELSE [next EXCEPT !.pastStates = Append(kept, pastState), !.futureStates = <<>>]

addLayer(a, pluginId) ==
  temporalSet(a, [a EXCEPT
    !.layers = Append(a.layers,
       [id |-> a.fresh, pluginId |-> pluginId, visible |-> TRUE, params |-> NoParams]),
    !.selectedLayerId = a.fresh,
    !.fresh = a.fresh + 1])

removeLayer(a, id) ==
  temporalSet(a, [a EXCEPT
    !.layers = SelectSeq(a.layers, LAMBDA l : l.id # id),
    !.selectedLayerId = IF a.selectedLayerId = id THEN NoLayer ELSE a.selectedLayerId])

selectLayer(a, id) == temporalSet(a, [a EXCEPT !.selectedLayerId = id])

reorderLayers(a, newLayers) == temporalSet(a, [a EXCEPT !.layers = newLayers])

\* undo(): the last of pastStates is merged into the state, which holds the
\* partialized fields only; the current partialized state goes onto
\* futureStates.
undo(a) ==
  [a EXCEPT !.layers = a.pastStates[Len(a.pastStates)].layers,
            !.pastStates = SubSeq(a.pastStates, 1, Len(a.pastStates) - 1),
            !.futureStates = Append(a.futureStates, partialize(a))]

\* redo(): the same with the two stacks exchanged.
redo(a) ==
  [a EXCEPT !.layers = a.futureStates[Len(a.futureStates)].layers,
            !.futureStates = SubSeq(a.futureStates, 1, Len(a.futureStates) - 1),
            !.pastStates = Append(a.pastStates, partialize(a))]

StoreInit ==
  app = [layers |-> <<>>, selectedLayerId |-> NoLayer, fresh |-> 1,
         pastStates |-> <<>>, futureStates |-> <<>>, calls |-> 0]

Called(a) == [a EXCEPT !.calls = app.calls + 1]

StoreAddLayer ==
  \E pluginId \in RegistryPlugins :
    /\ app.calls < MaxStoreEvents /\ app.fresh <= MaxStoreIds
    /\ app' = Called(addLayer(app, pluginId))
StoreRemoveLayer ==
  \E id \in LayerIds(app.layers) :
    /\ app.calls < MaxStoreEvents
    /\ app' = Called(removeLayer(app, id))
StoreSelectLayer ==
  \E id \in LayerIds(app.layers) :
    /\ app.calls < MaxStoreEvents
    /\ app' = Called(selectLayer(app, id))
StoreReorderLayers ==
  \E from \in 1..Len(app.layers), to \in 1..Len(app.layers) :
    /\ from # to
    /\ app.calls < MaxStoreEvents
    /\ app' = Called(reorderLayers(app, arrayMove(app.layers, from, to)))
\* The undo and redo buttons, enabled while their stack is not empty.
Undo ==
  /\ app.calls < MaxStoreEvents /\ app.pastStates # <<>>
  /\ app' = Called(undo(app))
Redo ==
  /\ app.calls < MaxStoreEvents /\ app.futureStates # <<>>
  /\ app' = Called(redo(app))

StoreNext ==
  \/ StoreAddLayer
  \/ StoreRemoveLayer
  \/ StoreSelectLayer
  \/ StoreReorderLayers
  \/ Undo
  \/ Redo

\* C26: after any sequence of addLayer, removeLayer, selectLayer of a listed
\* layer, reorderLayers, undo and redo, selectedLayerId is null or the id of
\* a layer of the layer array.
C26_SelectionIsListed ==
  app.selectedLayerId = NoLayer \/ app.selectedLayerId \in LayerIds(app.layers)

vars == <<state, anim, ops, store, engine, nextId, note, events, ex, rz, app>>

\* The parts that a specification leaves alone: no crop editor open
\* (useCropState holds null), no export running, no handle grabbed.
NoCropper == state = "null" /\ anim = NoAnim /\ ops = 0
NoExport == ex = [phase |-> "none"]
NoResize == rz = [phase |-> "none"]
NoHistory == StoreInit

\* The crop editor, opened on an image.
SpecCropInit == CropInit /\ PipeInit /\ NoExport /\ NoResize /\ NoHistory
SpecCropNext == CropNext /\ UNCHANGED <<pipeVars, ex, rz, app>>
SpecCrop == SpecCropInit /\ [][SpecCropNext]_vars
\* The same with requestAnimationFrame delivering the frames it was asked
\* for: the loop's next frame is eventually run.
SpecCropLive ==
  /\ SpecCrop
  /\ WF_vars(AnimFrame /\ UNCHANGED <<pipeVars, ex, rz, app>>)
  /\ WF_vars(AnimFinish /\ UNCHANGED <<pipeVars, ex, rz, app>>)

\* The store and the engine subscribed to it.
SpecPipeInit == PipeInit /\ NoCropper /\ NoExport /\ NoResize /\ NoHistory
SpecPipeNext == PipeNext /\ UNCHANGED <<cropVars, ex, rz, app>>
SpecPipe == SpecPipeInit /\ [][SpecPipeNext]_vars

\* The store and the engine, compare mode and dispose included.
SpecEngineInit == PipeInit /\ NoCropper /\ NoExport /\ NoResize /\ NoHistory
SpecEngineNext == EngineNext /\ UNCHANGED <<cropVars, ex, rz, app>>
SpecEngine == SpecEngineInit /\ [][SpecEngineNext]_vars

\* One run of the tiled exporter.
SpecExportInit == ExportInit /\ PipeInit /\ NoCropper /\ NoResize /\ NoHistory
SpecExportNext == ExportNext /\ UNCHANGED <<cropVars, pipeVars, rz, app>>
SpecExport == SpecExportInit /\ [][SpecExportNext]_vars
\* Every step of the export and of handleDownload is taken by the browser
\* whenever it can be: the loop runs on, the promise callbacks are run.
SpecExportLive == SpecExport /\ WF_vars(SpecExportNext)

\* One resize of the crop box.
SpecResizeInit == ResizeInit /\ PipeInit /\ NoCropper /\ NoExport /\ NoHistory
SpecResizeNext == ResizeNext /\ UNCHANGED <<cropVars, pipeVars, ex, app>>
SpecResize == SpecResizeInit /\ [][SpecResizeNext]_vars

\* The layer list, the selection and the undo history.
SpecStoreInit == StoreInit /\ PipeInit /\ NoCropper /\ NoExport /\ NoResize
SpecStoreNext == StoreNext /\ UNCHANGED <<cropVars, pipeVars, ex, rz>>
SpecStore == SpecStoreInit /\ [][SpecStoreNext]_vars

====
